---- MODULE Spec2Model ----
(***************************************************************************)
(* Verification model of the path tracer's core (pema99/rust-path-tracer). *)
(*                                                                         *)
(* Part I   rendering driver: trace_gpu / trace_cpu (src/src/trace.rs)     *)
(*          running concurrently with the UI thread (src/src/app.rs).      *)
(*                                                                         *)
(* Sample values are abstracted to the config version they were traced     *)
(* under: the accumulator is the number of samples summed into every cell  *)
(* and the set of config versions those samples were traced with.          *)
(***************************************************************************)
EXTENDS Integers, Sequences, FiniteSets, TLC

\* ------------------------------------------------------------------ bounds
MaxUiEvents == 3
MaxSamples == 3
MaxSyncRate == 2
MaxWidth == 9
MaxHeight == 8
WorkGroupSize == 8
MaxLights == 3
sah_samples == 128
StackCapacity == 32
MaxPower == 3
MaxTris == 3
MaxAnyT == 20
MaxBounces == 3
MaxPdf == 4
ModeBounces == 2
DeepTris == 34
FarTris == 3
MaxOffset == 3
LDS_MAX_DIMENSIONS == 32
DrawBounces == 5
MaxFrames == 3
WorldTris == 3

\* ---------------------------------------------------------------- variables
VARIABLES
    \* TracingState (src/src/trace.rs:40-50)
    framebuffer, running, samples, sync_rate, use_blue_noise, interacting,
    dirty, config,
    \* the config RwLock: TRUE while the renderer holds its read guard
    config_read_locked,
    \* App (src/src/app.rs:54-73) and the UI thread's position
    compute_join_handle, use_cpu, scene_loads, ui_pc, continue_previous,
    \* the renderer thread: position and locals of trace_gpu / trace_cpu
    rpc, on_cpu, flush, finished_samples, batch_left, output_buffer,
    config_buffer, rng_selected, rng_data_advanced, rng_buffer_advanced,
    \* history: config at the start of the tick, samples finished since
    \* `running` was last stored false, UI commands so far; tick_sync_rate is
    \* the shared sync_rate at the start of the tick
    tick_config, tick_sync_rate, finished_after_stop, ui_events,
    screen_width, screen_height, pass, next_id, writes, stray_writes,
    triangle_powers, light_pc, bins, bin_i, most_probable,
    indices, nodes, node_count, build_stack, bvh_pc, ro, rd, nearest_hit,
    max_t, stack, result,
    \* two runs of one back-end under the setup_trace harness: per run the
    \* TracingState fields, the renderer's position and locals and the
    \* watcher thread's position
    h_cpu, h_target, h_running, h_samples, h_framebuffer, h_rpc,
    h_output_buffer, h_finished_samples, h_batch_left, h_watcher,
    h_scene_loads,
    \* one invocation of the per-pixel tracer: config fields, the locals of
    \* the bounce loop, what the last iteration did, and what was added to
    \* output[index]
    nee_mode, max_bounces, min_bounces, bounce, throughput, radiance,
    last_lobe, path_pc, event, output_added,
    \* what sample_direct_lighting returned and what it used
    direct_sample,
    \* one call of get_weight: its arguments and what it returned
    weight_nee_mode, p1, p2, weight,
    \* one pixel traced under each NEE mode from the same RNG state, in the
    \* same scene, with the same config but for `nee`
    m_lights, m_max_bounces, m_min_bounces, m_path,
    \* BVHBuilder over a scene far from the origin: the input index array,
    \* indices and centroids, the nodes, build()'s stack and node_count,
    \* the node being partitioned with its split plane, and a and b
    far_input, far_indices, far_centroids, far_nodes, far_node_count,
    far_stack, far_pc, far_node_idx, far_split, far_a, far_b,
    \* RngState.dimension while main_material traces one pixel: where the
    \* kernel is, its config, whether the scene has lights, `bounce` and
    \* the lobe bsdf.sample returned
    dimension, rng_pc, rng_nee, rng_max_bounces, rng_min_bounces, rng_lights,
    rng_bounce, rng_lobe,
    \* the UI thread and the renderer threads of one App with the two
    \* RwLocks of TracingState: who holds each lock, `running`,
    \* compute_join_handle (0 or a thread), every thread spawned so far
    \* with what it still has to run, what is left of the UI's frame,
    \* use_cpu and the number of frames so far
    t_locks, t_running, t_handle, t_threads, t_ui, t_use_cpu, t_frames,
    \* World::from_path after the file is read: the index array (per
    \* triangle whether its material is emissive and its power), the
    \* emissive mask, the light pick table, and the triangle index one call
    \* of pick_light returned
    w_pc, w_indices, w_mask, w_table, w_light

sharedVars == <<framebuffer, running, samples, sync_rate, use_blue_noise,
                interacting, dirty, config, config_read_locked>>
appVars == <<compute_join_handle, use_cpu, scene_loads, ui_pc, continue_previous>>
rendVars == <<rpc, on_cpu, flush, finished_samples, batch_left, output_buffer,
              config_buffer, rng_selected, rng_data_advanced, rng_buffer_advanced>>
threadLocals == <<flush, finished_samples, batch_left, output_buffer, config_buffer,
    rng_selected, rng_data_advanced, rng_buffer_advanced>>
histVars == <<tick_config, tick_sync_rate, finished_after_stop, ui_events>>
driverVars == <<sharedVars, appVars, rendVars, histVars>>

dispatchVars == <<screen_width, screen_height, pass, next_id, writes, stray_writes>>
lightVars == <<triangle_powers, light_pc, bins, bin_i, most_probable>>
bvhVars == <<indices, nodes, node_count, build_stack, bvh_pc, ro, rd, nearest_hit,
    max_t, stack, result>>
harnessVars == <<h_cpu, h_target, h_running, h_samples, h_framebuffer, h_rpc,
    h_output_buffer, h_finished_samples, h_batch_left, h_watcher, h_scene_loads>>
pathVars == <<nee_mode, max_bounces, min_bounces, bounce, throughput, radiance,
    last_lobe, path_pc, event, output_added>>
weightVars == <<weight_nee_mode, p1, p2, weight>>
modesVars == <<m_lights, m_max_bounces, m_min_bounces, m_path>>
farVars == <<far_input, far_indices, far_centroids, far_nodes, far_node_count,
    far_stack, far_pc, far_node_idx, far_split, far_a, far_b>>
rngVars == <<dimension, rng_pc, rng_nee, rng_max_bounces, rng_min_bounces,
    rng_lights, rng_bounce, rng_lobe>>
lockVars == <<t_locks, t_running, t_handle, t_threads, t_ui, t_use_cpu, t_frames>>
worldVars == <<w_pc, w_indices, w_mask, w_table, w_light>>
lateVars == <<farVars, rngVars, lockVars, worldVars>>
kernelVars == <<weightVars, modesVars, lateVars>>
extraVars == <<harnessVars, pathVars, direct_sample, kernelVars>>
vars == <<driverVars, dispatchVars, lightVars, bvhVars, extraVars>>

\* The parts of the program that a specification does not exercise stay in
\* these states.
DispatchIdle ==
    /\ screen_width = 1
    /\ screen_height = 1
    /\ pass = "none"
    /\ next_id = 0
    /\ writes = <<>>
    /\ stray_writes = 0

WeightIdle ==
    /\ weight_nee_mode = "None"
    /\ p1 = 0
    /\ p2 = 0
    /\ weight = "none"

ModesIdle ==
    /\ m_lights = FALSE
    /\ m_max_bounces = 0
    /\ m_min_bounces = 0
    /\ m_path = <<>>

FarIdle ==
    /\ far_input = <<>>
    /\ far_indices = <<>>
    /\ far_centroids = <<>>
    /\ far_nodes = <<>>
    /\ far_node_count = 0
    /\ far_stack = <<>>
    /\ far_pc = "none"
    /\ far_node_idx = 0
    /\ far_split = 0
    /\ far_a = 0
    /\ far_b = 0

RngIdle ==
    /\ dimension = 0
    /\ rng_pc = "none"
    /\ rng_nee = "None"
    /\ rng_max_bounces = 0
    /\ rng_min_bounces = 0
    /\ rng_lights = FALSE
    /\ rng_bounce = 0
    /\ rng_lobe = "DiffuseReflection"

LocksIdle ==
    /\ t_locks = <<>>
    /\ t_running = FALSE
    /\ t_handle = 0
    /\ t_threads = <<>>
    /\ t_ui = <<>>
    /\ t_use_cpu = FALSE
    /\ t_frames = 0

WorldIdle ==
    /\ w_pc = "idle"
    /\ w_indices = <<>>
    /\ w_mask = <<>>
    /\ w_table = <<>>
    /\ w_light = 0

LateIdle == FarIdle /\ RngIdle /\ LocksIdle /\ WorldIdle

KernelIdle == WeightIdle /\ ModesIdle /\ LateIdle

LightIdle ==
    /\ triangle_powers = <<>>
    /\ light_pc = "none"
    /\ bins = <<>>
    /\ bin_i = 0
    /\ most_probable = 0

\* ------------------------------------------------------------ accumulator
\* An accumulator (or a framebuffer times its divisor): n samples summed in
\* every cell, traced under the config versions in cfgs.
ZeroBuffer == [n |-> 0, cfgs |-> {}]

AddSample(buf, cfg) == [n |-> buf.n + 1, cfgs |-> buf.cfgs \cup {cfg}]

\* framebuffer.chunks(3).map(|c| Vec4(c) * samples_init): the published
\* average scaled back by the shared sample counter.
\* Variant of the restore that starts from an empty accumulator.
RestoreNothing(fb, samples_init) == ZeroBuffer

RestoreOutput(fb, samples_init) ==
    [n |-> samples_init, cfgs |-> IF samples_init = 0 THEN {} ELSE fb.cfgs]

\* image_buffer[i] = col / sample_count, then framebuffer.write().copy_from_slice
Publish(buf, sample_count, wanted) ==
    [n |-> buf.n, cfgs |-> buf.cfgs, div |-> sample_count, tick |-> wanted]

\* vec![0.0; data_size] of make_view_dependent_state
EmptyFramebuffer == [n |-> 0, cfgs |-> {}, div |-> 0, tick |-> 0]

SeedMode(blue) == IF blue THEN "blue" ELSE "uniform"

\* ---------------------------------------------------------------- Init
\* TracingState::new (trace.rs:68-91) and App::new (app.rs:110-127); the
\* selected scene file either loads or does not.
DriverInit ==
    /\ framebuffer = EmptyFramebuffer
    /\ running = FALSE
    /\ samples = 0
    /\ sync_rate = MaxSyncRate
    /\ use_blue_noise = TRUE
    /\ interacting = FALSE
    /\ dirty = FALSE
    /\ config = 0
    /\ config_read_locked = FALSE
    /\ compute_join_handle = "none"
    /\ use_cpu = FALSE
    /\ scene_loads \in BOOLEAN
    /\ ui_pc = "idle"
    /\ continue_previous = FALSE
    /\ rpc = "none"
    /\ on_cpu = FALSE
    /\ flush = FALSE
    /\ finished_samples = 0
    /\ batch_left = 0
    /\ output_buffer = ZeroBuffer
    /\ config_buffer = 0
    /\ rng_selected = "blue"
    /\ rng_data_advanced = [m \in {"blue", "uniform"} |-> FALSE]
    /\ rng_buffer_advanced = FALSE
    /\ tick_config = 0
    /\ tick_sync_rate = 0
    /\ finished_after_stop = 0
    /\ ui_events = 0

DriverIdle == DriverInit /\ ~scene_loads

\* ------------------------------------------------------- renderer thread
\* Variant of the early return that raises dirty when the scene fails.
ThreadLoadMarksDirty ==
    /\ rpc = "load"
    /\ rpc' = IF scene_loads THEN "setup" ELSE "done"
    /\ dirty' = (dirty \/ ~scene_loads)
    /\ UNCHANGED <<framebuffer, running, samples, sync_rate, use_blue_noise,
                   interacting, config, config_read_locked, appVars,
                   histVars, on_cpu, flush, finished_samples, batch_left,
                   output_buffer, config_buffer, rng_selected,
                   rng_data_advanced, rng_buffer_advanced>>

\* let Some(world) = World::from_path(scene_path) else { return; }
ThreadLoad ==
    /\ rpc = "load"
    /\ rpc' = IF scene_loads THEN "setup" ELSE "done"
    /\ UNCHANGED <<sharedVars, appVars, histVars, on_cpu, flush,
                   finished_samples, batch_left, output_buffer, config_buffer,
                   rng_selected, rng_data_advanced, rng_buffer_advanced>>

\* "Restore previous state, if there is any" and, on the GPU, the uniform
\* buffer created from the shared config.
ThreadSetup ==
    /\ rpc = "setup"
    /\ output_buffer' = RestoreOutput(framebuffer, samples)
    /\ config_buffer' = IF on_cpu THEN 0 ELSE config
    /\ rpc' = "seed"
    /\ UNCHANGED <<sharedVars, appVars, histVars, on_cpu, flush,
                   finished_samples, batch_left, rng_selected,
                   rng_data_advanced, rng_buffer_advanced>>

\* rng_data_blue / rng_data_uniform are built per thread; rng_buffer is the
\* one use_blue_noise selects (a GPU copy, or on the CPU a &mut to it).
ThreadSeed ==
    /\ rpc = "seed"
    /\ rng_selected' = SeedMode(use_blue_noise)
    /\ rng_data_advanced' = [m \in {"blue", "uniform"} |-> FALSE]
    /\ rng_buffer_advanced' = FALSE
    /\ rpc' = "head"
    /\ UNCHANGED <<sharedVars, appVars, histVars, on_cpu, flush,
                   finished_samples, batch_left, output_buffer, config_buffer>>

\* while state.running.load(Ordering::Relaxed); on the GPU the tick starts
\* by loading sync_rate and clearing flush and finished_samples.
LoopHead ==
    /\ rpc = "head"
    /\ IF ~running
         THEN /\ rpc' = "done"
              /\ UNCHANGED <<flush, finished_samples, batch_left, tick_config, tick_sync_rate>>
         ELSE /\ samples + (IF on_cpu THEN 1 ELSE sync_rate) <= MaxSamples
              /\ tick_config' = config
              /\ tick_sync_rate' = sync_rate
              /\ IF on_cpu
                   THEN /\ rpc' = "c_flush"
                        /\ UNCHANGED <<flush, finished_samples, batch_left>>
                   ELSE /\ rpc' = "g_dispatch"
                        /\ flush' = FALSE
                        /\ finished_samples' = 0
                        /\ batch_left' = sync_rate
    /\ UNCHANGED <<sharedVars, appVars, on_cpu, output_buffer, config_buffer,
                   rng_selected, rng_data_advanced, rng_buffer_advanced,
                   finished_after_stop, ui_events>>

CountAfterStop == IF running THEN finished_after_stop ELSE finished_after_stop + 1

\* rt.0.enqueue(..); FW.poll_blocking(); finished_samples += 1;
\* the kernel reads the uniform config buffer and advances the RNG buffer.
GpuDispatch ==
    /\ rpc = "g_dispatch"
    /\ output_buffer' = AddSample(output_buffer, config_buffer)
    /\ rng_buffer_advanced' = TRUE
    /\ finished_samples' = finished_samples + 1
    /\ batch_left' = batch_left - 1
    /\ finished_after_stop' = CountAfterStop
    /\ rpc' = "g_flush"
    /\ UNCHANGED <<sharedVars, appVars, on_cpu, flush, config_buffer,
                   rng_selected, rng_data_advanced, tick_config, tick_sync_rate, ui_events>>

\* flush |= interacting || dirty; if flush { break; }
GpuFlushCheck ==
    /\ rpc = "g_flush"
    /\ flush' = (flush \/ interacting \/ dirty)
    /\ rpc' = IF flush' THEN "publish" ELSE "g_running"
    /\ UNCHANGED <<sharedVars, appVars, histVars, on_cpu, finished_samples,
                   batch_left, output_buffer, config_buffer, rng_selected,
                   rng_data_advanced, rng_buffer_advanced>>

\* Variant of the batch loop without the cancellation check after a sample.
GpuRunningIgnored ==
    /\ rpc = "g_running"
    /\ rpc' = IF batch_left > 0 THEN "g_dispatch" ELSE "publish"
    /\ UNCHANGED <<sharedVars, appVars, histVars, on_cpu, flush,
                   finished_samples, batch_left, output_buffer, config_buffer,
                   rng_selected, rng_data_advanced, rng_buffer_advanced>>

\* if !state.running.load() { return; }  and the for loop's next iteration
GpuRunningCheck ==
    /\ rpc = "g_running"
    /\ rpc' = IF ~running THEN "done"
              ELSE IF batch_left > 0 THEN "g_dispatch" ELSE "publish"
    /\ UNCHANGED <<sharedVars, appVars, histVars, on_cpu, flush,
                   finished_samples, batch_left, output_buffer, config_buffer,
                   rng_selected, rng_data_advanced, rng_buffer_advanced>>

\* CPU: let flush = interacting || dirty;
CpuFlushCheck ==
    /\ rpc = "c_flush"
    /\ flush' = (interacting \/ dirty)
    /\ rpc' = "c_lock"
    /\ UNCHANGED <<sharedVars, appVars, histVars, on_cpu, finished_samples,
                   batch_left, output_buffer, config_buffer, rng_selected,
                   rng_data_advanced, rng_buffer_advanced>>

\* let config = state.config.read();
CpuLock ==
    /\ rpc = "c_lock"
    /\ config_read_locked' = TRUE
    /\ rpc' = "c_trace"
    /\ UNCHANGED <<framebuffer, running, samples, sync_rate, use_blue_noise,
                   interacting, dirty, config, appVars, histVars, on_cpu,
                   flush, finished_samples, batch_left, output_buffer,
                   config_buffer, rng_selected, rng_data_advanced,
                   rng_buffer_advanced>>

\* the par_chunks_mut pass: every pixel traced with the locked live config,
\* rng[x] = rng_state written through the &mut into the selected seed array;
\* then the read guard is dropped.
CpuTrace ==
    /\ rpc = "c_trace"
    /\ output_buffer' = AddSample(output_buffer, config)
    /\ rng_data_advanced' = [rng_data_advanced EXCEPT ![rng_selected] = TRUE]
    /\ config_read_locked' = FALSE
    /\ finished_after_stop' = CountAfterStop
    /\ rpc' = "publish"
    /\ UNCHANGED <<framebuffer, running, samples, sync_rate, use_blue_noise,
                   interacting, dirty, config, appVars, on_cpu, flush,
                   finished_samples, batch_left, config_buffer, rng_selected,
                   rng_buffer_advanced, tick_config, tick_sync_rate, ui_events>>

\* Variant of the counter update that adds the shared sync_rate instead of
\* the number of samples the batch finished.
FinishedCountLive == IF on_cpu THEN 1 ELSE sync_rate

\* samples.fetch_add(..); readback; divide by samples.load(); publish.
FinishedCount == IF on_cpu THEN 1 ELSE finished_samples

PublishFrame ==
    /\ rpc = "publish"
    /\ samples' = samples + FinishedCount
    /\ framebuffer' = Publish(output_buffer, samples', tick_config)
    /\ rpc' = IF flush THEN "fl_dirty" ELSE "head"
    /\ UNCHANGED <<running, sync_rate, use_blue_noise, interacting, dirty,
                   config, config_read_locked, appVars, histVars, on_cpu,
                   flush, finished_samples, batch_left, output_buffer,
                   config_buffer, rng_selected, rng_data_advanced,
                   rng_buffer_advanced>>

\* if flush { dirty.store(false); samples.store(0); ...
\* (CPU: output_buffer = vec![Vec4::ZERO; ..] follows without a shared access)
FlushSamples == 0

FlushClear ==
    /\ rpc = "fl_dirty"
    /\ dirty' = FALSE
    /\ samples' = FlushSamples
    /\ output_buffer' = IF on_cpu THEN ZeroBuffer ELSE output_buffer
    /\ rpc' = IF on_cpu THEN "fl_rng" ELSE "fl_config"
    /\ UNCHANGED <<framebuffer, running, sync_rate, use_blue_noise,
                   interacting, config, config_read_locked, appVars, histVars,
                   on_cpu, flush, finished_samples, batch_left, config_buffer,
                   rng_selected, rng_data_advanced, rng_buffer_advanced>>

\* GPU: config_buffer.write(&[*state.config.read()]); output_buffer.write(zeros)
FlushConfig ==
    /\ rpc = "fl_config"
    /\ config_buffer' = config
    /\ output_buffer' = ZeroBuffer
    /\ rpc' = "fl_rng"
    /\ UNCHANGED <<sharedVars, appVars, histVars, on_cpu, flush,
                   finished_samples, batch_left, rng_selected,
                   rng_data_advanced, rng_buffer_advanced>>

\* GPU: rng_buffer.write(seed array): the device copy is the seeds again.
\* CPU: rng_buffer = &mut seed array: the array the passes have written.
FlushRng ==
    /\ rpc = "fl_rng"
    /\ rng_selected' = SeedMode(use_blue_noise)
    /\ rng_buffer_advanced' = IF on_cpu THEN rng_buffer_advanced ELSE FALSE
    /\ rpc' = "head"
    /\ UNCHANGED <<sharedVars, appVars, histVars, on_cpu, flush,
                   finished_samples, batch_left, output_buffer, config_buffer,
                   rng_data_advanced>>

Renderer ==
    \/ ThreadLoad \/ ThreadSetup \/ ThreadSeed \/ LoopHead
    \/ GpuDispatch \/ GpuFlushCheck \/ GpuRunningCheck
    \/ CpuFlushCheck \/ CpuLock \/ CpuTrace
    \/ PublishFrame \/ FlushClear \/ FlushConfig \/ FlushRng

\* -------------------------------------------------------------- UI thread
\* One command of the user per frame of the event loop, out of a bounded
\* number of commands.
UiCommand ==
    /\ ui_pc = "idle"
    /\ ui_events < MaxUiEvents
    /\ ui_events' = ui_events + 1

RenderAlive == compute_join_handle = "some" /\ rpc # "done"

\* The rest of App::start_render once no thread is left to join
\* (app.rs:139-164): reset the view-dependent state unless continuing,
\* store running = true, spawn the thread for the selected device.
StartRenderBody(cont) ==
    /\ framebuffer' = IF cont THEN framebuffer ELSE EmptyFramebuffer
    /\ samples' = IF cont THEN samples ELSE 0
    /\ running' = TRUE
    /\ compute_join_handle' = "some"
    /\ rpc' = "load"
    /\ on_cpu' = use_cpu
    /\ finished_after_stop' = 0
    /\ ui_pc' = "idle"
    /\ flush' = FALSE
    /\ finished_samples' = 0
    /\ batch_left' = 0
    /\ output_buffer' = ZeroBuffer
    /\ config_buffer' = 0
    /\ rng_selected' = "blue"
    /\ rng_data_advanced' = [m \in {"blue", "uniform"} |-> FALSE]
    /\ rng_buffer_advanced' = FALSE

\* App::start_render: with a handle present it is stop_render first, whose
\* join blocks the UI thread until the renderer has returned.
StartRender(cont) ==
    /\ continue_previous' = cont
    /\ IF compute_join_handle = "some"
         THEN /\ running' = FALSE
              /\ ui_pc' = "join_restart"
              /\ UNCHANGED <<framebuffer, samples, compute_join_handle, rpc,
                             on_cpu, finished_after_stop, threadLocals>>
         ELSE StartRenderBody(cont)

\* "Start" is offered when there is no thread or it has finished.
UiStart ==
    /\ UiCommand
    /\ ~RenderAlive
    /\ StartRender(FALSE)
    /\ UNCHANGED <<sync_rate, use_blue_noise, interacting, dirty, config,
                   config_read_locked, use_cpu, scene_loads, tick_config, tick_sync_rate>>

\* "Stop": App::stop_render stores running = false, then joins.
UiStop ==
    /\ UiCommand
    /\ RenderAlive
    /\ running' = FALSE
    /\ ui_pc' = "join_stop"
    /\ UNCHANGED <<framebuffer, samples, sync_rate, use_blue_noise,
                   interacting, dirty, config, config_read_locked,
                   compute_join_handle, use_cpu, scene_loads,
                   continue_previous, rendVars, tick_config, tick_sync_rate,
                   finished_after_stop>>

\* handle.join(): returns once trace_gpu / trace_cpu has returned; after
\* stop_render inside start_render the rest of start_render follows.
UiJoin ==
    /\ ui_pc \in {"join_stop", "join_restart"}
    /\ rpc = "done"
    /\ IF ui_pc = "join_stop"
         THEN /\ compute_join_handle' = "none"
              /\ rpc' = "none"
              /\ ui_pc' = "idle"
              /\ UNCHANGED <<framebuffer, samples, running, on_cpu,
                             finished_after_stop, threadLocals>>
         ELSE StartRenderBody(continue_previous)
    /\ UNCHANGED <<sync_rate, use_blue_noise, interacting, dirty, config,
                   config_read_locked, use_cpu, scene_loads,
                   continue_previous, tick_config, tick_sync_rate,
                   ui_events>>

\* App::set_scene (also a dropped file): select, then start_render(false).
UiSetScene(loads) ==
    /\ UiCommand
    /\ scene_loads' = loads
    /\ StartRender(FALSE)
    /\ UNCHANGED <<sync_rate, use_blue_noise, interacting, dirty, config,
                   config_read_locked, use_cpu, tick_config, tick_sync_rate>>

\* App::set_skybox / clear_skybox: config.write().has_skybox = ..; then
\* restart_current_render(false), which restarts only if a handle exists.
UiSetSkybox ==
    /\ UiCommand
    /\ ~config_read_locked
    /\ config' = config + 1
    /\ IF compute_join_handle = "some"
         THEN StartRender(FALSE)
         ELSE UNCHANGED <<framebuffer, samples, running, compute_join_handle,
                          rpc, on_cpu, finished_after_stop, ui_pc,
                          continue_previous, threadLocals>>
    /\ UNCHANGED <<sync_rate, use_blue_noise, interacting, dirty,
                   config_read_locked, use_cpu, scene_loads, tick_config, tick_sync_rate>>

\* "Compute device" combo box: use_cpu = ..; restart_current_render(true).
UiSelectDevice(cpu) ==
    /\ UiCommand
    /\ use_cpu' = cpu
    /\ IF compute_join_handle = "some"
         THEN StartRender(TRUE)
         ELSE UNCHANGED <<framebuffer, samples, running, compute_join_handle,
                          rpc, on_cpu, finished_after_stop, ui_pc,
                          continue_previous, threadLocals>>
    /\ UNCHANGED <<sync_rate, use_blue_noise, interacting, dirty, config,
                   config_read_locked, scene_loads, tick_config, tick_sync_rate>>

\* Min/max bounces and the specular clamp sliders: the write guard is held
\* over the edit and over dirty.store(true) (app.rs:262-276, 297-312).
UiEditUnderLock ==
    /\ UiCommand
    /\ ~config_read_locked
    /\ config' = config + 1
    /\ dirty' = TRUE
    /\ UNCHANGED <<framebuffer, running, samples, sync_rate, use_blue_noise,
                   interacting, config_read_locked, appVars, rendVars,
                   tick_config, tick_sync_rate,
                   finished_after_stop>>

\* NEE mode, sun intensity, sun direction: config.write().x = ..; the guard
\* is dropped, then dirty.store(true) (app.rs:291-292, 387-388, 430-431).
UiEditThenDirty ==
    /\ UiCommand
    /\ ~config_read_locked
    /\ config' = config + 1
    /\ ui_pc' = "store_dirty"
    /\ UNCHANGED <<framebuffer, running, samples, sync_rate, use_blue_noise,
                   interacting, dirty, config_read_locked,
                   compute_join_handle, use_cpu, scene_loads,
                   continue_previous, rendVars, tick_config, tick_sync_rate,
                   finished_after_stop>>

\* "Use blue noise": use_blue_noise.store(..); dirty.store(true).
UiToggleBlueNoise ==
    /\ UiCommand
    /\ use_blue_noise' = ~use_blue_noise
    /\ ui_pc' = "store_dirty"
    /\ UNCHANGED <<framebuffer, running, samples, sync_rate, interacting,
                   dirty, config, config_read_locked, compute_join_handle,
                   use_cpu, scene_loads, continue_previous, rendVars,
                   tick_config, tick_sync_rate,
                   finished_after_stop>>

UiStoreDirty ==
    /\ ui_pc = "store_dirty"
    /\ dirty' = TRUE
    /\ ui_pc' = "idle"
    /\ UNCHANGED <<framebuffer, running, samples, sync_rate, use_blue_noise,
                   interacting, config, config_read_locked,
                   compute_join_handle, use_cpu, scene_loads,
                   continue_previous, rendVars, histVars>>

\* App::handle_input, first half: interacting follows the secondary mouse
\* button (app.rs:445-451).
UiInputButton(secondary_down) ==
    /\ UiCommand
    /\ interacting' = secondary_down
    /\ ui_pc' = "input_write"
    /\ UNCHANGED <<framebuffer, running, samples, sync_rate, use_blue_noise,
                   dirty, config, config_read_locked, compute_join_handle,
                   use_cpu, scene_loads, continue_previous, rendVars,
                   tick_config, tick_sync_rate,
                   finished_after_stop>>

\* App::handle_input, second half: under config.write() the camera position
\* follows W/A/S/D/E/Q and the rotation the pending mouse delta
\* (app.rs:453-491); no flag is stored here.
UiInputWrite(moved) ==
    /\ ui_pc = "input_write"
    /\ ~config_read_locked
    /\ config' = IF moved THEN config + 1 ELSE config
    /\ ui_pc' = "idle"
    /\ UNCHANGED <<framebuffer, running, samples, sync_rate, use_blue_noise,
                   interacting, dirty, config_read_locked,
                   compute_join_handle, use_cpu, scene_loads,
                   continue_previous, rendVars, histVars>>

\* "GPU sync rate" slider, 1..=256, enabled unless use_cpu
\* (app.rs:350-353), capped by the bound.
UiSetSyncRate(rate) ==
    /\ UiCommand
    /\ ~use_cpu
    /\ rate # sync_rate
    /\ sync_rate' = rate
    /\ UNCHANGED <<framebuffer, running, samples, use_blue_noise, interacting,
                   dirty, config, config_read_locked, appVars, rendVars,
                   tick_config, tick_sync_rate,
                   finished_after_stop>>

Ui ==
    \/ UiStart \/ UiStop \/ UiJoin
    \/ \E loads \in BOOLEAN : UiSetScene(loads)
    \/ UiSetSkybox
    \/ \E cpu \in BOOLEAN : UiSelectDevice(cpu)
    \/ UiEditUnderLock \/ UiEditThenDirty \/ UiToggleBlueNoise \/ UiStoreDirty
    \/ \E down \in BOOLEAN : UiInputButton(down)
    \/ \E moved \in BOOLEAN : UiInputWrite(moved)
    \/ \E rate \in 1..MaxSyncRate : UiSetSyncRate(rate)

\* ------------------------------------------------- the light pick table
\* build_light_pick_table over the emissive triangles, in exact arithmetic:
\* with n = total_tris and W = total_power every probability is kept as an
\* integer count of 1 / (n * W), so triangle_probabilities[i] is
\* n * triangle_powers[i] and average_probability is W.
RECURSIVE SumSeq(_)
SumSeq(q) == IF q = <<>> THEN 0 ELSE Head(q) + SumSeq(Tail(q))

total_power == SumSeq(triangle_powers)
total_tris == Len(triangle_powers)
triangle_probabilities == [i \in 1..total_tris |-> total_tris * triangle_powers[i]]
average_probability == total_power

\* bins.sort_by(probability_a): a stable sort, here by insertion.
RECURSIVE InsertBin(_, _)
InsertBin(sorted, b) ==
    IF sorted = <<>> THEN <<b>>
    ELSE IF b.probability_a < Head(sorted).probability_a
           THEN <<b>> \o sorted
           ELSE <<Head(sorted)>> \o InsertBin(Tail(sorted), b)

RECURSIVE SortBins(_)
SortBins(q) ==
    IF q = <<>> THEN <<>>
    ELSE InsertBin(SortBins(SubSeq(q, 1, Len(q) - 1)), q[Len(q)])

\* One TriangleBin per triangle of non-zero probability, sorted ascending;
\* triangle indices count from 0 and index_b starts as 0.
NonZeroBin(b) == b.probability_a # 0

InitialBins ==
    SortBins(SelectSeq([i \in 1..total_tris |->
                [index_a |-> i - 1, probability_a |-> triangle_probabilities[i],
                 index_b |-> 0, probability_b |-> 0]], NonZeroBin))

\* pick_light: the bin is floor(r.x * len), outcome a iff r.y < ratio with
\* ratio = probability_a / (probability_a + probability_b) and r.y uniform in
\* [0, 1); 0 / 0 is NaN, which no r.y is below.  The chance of outcome a as
\* a fraction <<numerator, denominator>>.
ChanceOfA(b) ==
    LET d == b.probability_a + b.probability_b
    IN  IF d = 0 THEN <<0, 1>>
        ELSE IF d < 0
               THEN IF b.probability_a >= 0 THEN <<0, 1>>
                    ELSE IF b.probability_a <= d THEN <<1, 1>>
                    ELSE <<-b.probability_a, -d>>
        ELSE IF b.probability_a <= 0 THEN <<0, 1>>
        ELSE IF b.probability_a >= d THEN <<1, 1>>
        ELSE <<b.probability_a, d>>

\* What one bin contributes to the chance of picking triangle t, times the
\* number of bins.
BinShare(b, t) ==
    LET c == ChanceOfA(b)
        as_a == IF b.index_a = t THEN c[1] ELSE 0
        as_b == IF b.index_b = t THEN c[2] - c[1] ELSE 0
    IN  <<as_a + as_b, c[2]>>

RECURSIVE PickShare(_, _)
PickShare(table, t) ==
    IF table = <<>> THEN <<0, 1>>
    ELSE LET h == BinShare(Head(table), t)
             r == PickShare(Tail(table), t)
         IN  <<h[1] * r[2] + r[1] * h[2], h[2] * r[2]>>

\* The chance that pick_light returns t equals triangle_pick_pdf of t,
\* triangle_powers[t] / total_power.
PickedWithStoredPdf(table, t) ==
    LET s == PickShare(table, t)
    IN  s[1] * total_power = triangle_powers[t + 1] * Len(table) * s[2]

RECURSIVE SeqsUpTo(_, _)
SeqsUpTo(S, n) ==
    IF n = 0 THEN {<<>>}
    ELSE LET shorter == SeqsUpTo(S, n - 1)
         IN  shorter \cup {Append(q, x) : q \in shorter, x \in S}

LightInit ==
    /\ triangle_powers \in SeqsUpTo(1..MaxPower, MaxLights) \ {<<>>}
    /\ light_pc = "powers"
    /\ bins = <<>>
    /\ bin_i = 0
    /\ most_probable = 0

\* Probabilities, bins, the sort; let mut most_probable = num_bins - 1.
BuildBins ==
    /\ light_pc = "powers"
    /\ total_tris # 0
    /\ total_power # 0
    /\ bins' = InitialBins
    /\ bin_i' = 1
    /\ most_probable' = Len(InitialBins)
    /\ light_pc' = "robin_hood"
    /\ UNCHANGED triangle_powers

\* One iteration of "for i in 0..num_bins" that does not break.
RobinHood ==
    /\ light_pc = "robin_hood"
    /\ bin_i <= Len(bins)
    /\ LET needed == average_probability - bins[bin_i].probability_a
           given == [bins EXCEPT ![bin_i].index_b = bins[most_probable].index_a,
                                 ![bin_i].probability_b = needed]
           taken == [given EXCEPT ![most_probable].probability_a = @ - needed]
       IN  /\ needed > 0
           /\ bins' = taken
           /\ most_probable' =
                IF taken[most_probable].probability_a <= average_probability
                  THEN most_probable - 1 ELSE most_probable
    /\ bin_i' = bin_i + 1
    /\ light_pc' = IF most_probable' = 0 /\ bin_i' <= Len(bins)
                     THEN "underflow" ELSE "robin_hood"
    /\ UNCHANGED triangle_powers

\* needed <= 0.0 breaks the loop, or the loop runs out; the table is built.
BuildTable ==
    /\ light_pc = "robin_hood"
    /\ \/ bin_i > Len(bins)
       \/ /\ bin_i <= Len(bins)
          /\ average_probability - bins[bin_i].probability_a <= 0
    /\ light_pc' = "table"
    /\ UNCHANGED <<triangle_powers, bins, bin_i, most_probable>>

\* if total_tris == 0 { return vec![LightPickEntry { ratio: -1.0, .. }]; }
TableSentinel ==
    /\ light_pc = "powers"
    /\ total_tris = 0
    /\ bins' = <<>>
    /\ light_pc' = "table"
    /\ UNCHANGED <<triangle_powers, bin_i, most_probable>>

\* Emissive triangles of zero area only: total_power is 0.0 and every
\* probability is 0.0 / 0.0 = NaN.  No NaN equals 0.0, so every triangle
\* keeps its bin; needed is NaN, so the loop never breaks, gives every bin
\* the last bin's triangle as index_b and never moves most_probable.  The
\* NaN probabilities are kept as 0, whose ratio 0 / 0 is NaN as well.
TableOfNaN ==
    /\ light_pc = "powers"
    /\ total_tris # 0
    /\ total_power = 0
    /\ bins' = [i \in 1..total_tris |->
                  [index_a |-> i - 1, probability_a |-> 0,
                   index_b |-> total_tris - 1, probability_b |-> 0]]
    /\ bin_i' = total_tris + 1
    /\ most_probable' = total_tris
    /\ light_pc' = "table"
    /\ UNCHANGED triangle_powers

\* LightPickEntry::ratio as a fraction <<numerator, denominator>>; 0 / 0 is
\* NaN.  ratio = probability_a / (probability_a + probability_b).
EntryRatio(b) == <<b.probability_a, b.probability_a + b.probability_b>>

\* What build_light_pick_table returns: the sentinel entry or one entry
\* per bin.
LightPickTable ==
    IF total_tris = 0
      THEN <<[triangle_index_a |-> 0, triangle_index_b |-> 0, ratio |-> <<-1, 1>>]>>
      ELSE [i \in DOMAIN bins |->
              [triangle_index_a |-> bins[i].index_a,
               triangle_index_b |-> bins[i].index_b,
               ratio |-> EntryRatio(bins[i])]]

\* Variant of the sentinel test that never recognises a sentinel.
is_sentinel_never(entry) == FALSE

\* LightPickEntry::is_sentinel: self.ratio < 0.0 (false for NaN)
is_sentinel(entry) == entry.ratio[1] * entry.ratio[2] < 0

\* DirectLightSample::default()
DefaultDirectSample ==
    [picked |-> FALSE, rng_draws |-> 0, shadow_rays |-> 0,
     direct_light_contribution |-> "zero"]

\* sample_direct_lighting: return the default sample on a sentinel table;
\* otherwise pick_light and pick_triangle_point draw two random numbers each
\* and intersect_any casts the shadow ray.
SampleDirectLighting(contribution) ==
    /\ light_pc = "table"
    /\ direct_sample' =
          IF is_sentinel(LightPickTable[1])
            THEN DefaultDirectSample
            ELSE [picked |-> TRUE, rng_draws |-> 4, shadow_rays |-> 1,
                  direct_light_contribution |-> contribution]
    /\ light_pc' = "sampled"
    /\ UNCHANGED <<triangle_powers, bins, bin_i, most_probable>>

LightNext ==
    \/ BuildBins /\ UNCHANGED <<driverVars, dispatchVars, bvhVars, extraVars>>
    \/ RobinHood /\ UNCHANGED <<driverVars, dispatchVars, bvhVars, extraVars>>
    \/ BuildTable /\ UNCHANGED <<driverVars, dispatchVars, bvhVars, extraVars>>

\* ------------------------------------------------------ one sample pass
\* The cells of the accumulator and of the RNG buffer written during one
\* pass: on the GPU by the invocations of main_material that
\* enqueue(div_ceil(width, 8), div_ceil(height, 8), 1) dispatches, on the
\* CPU by the row tasks of par_chunks_mut(screen_width).  Invocations and
\* row tasks only add to the write counts, so they are taken in index order.
DivCeil(a, b) == (a + b - 1) \div b

GridWidth == DivCeil(screen_width, WorkGroupSize) * WorkGroupSize
GridHeight == DivCeil(screen_height, WorkGroupSize) * WorkGroupSize

GlobalInvocationId(k) == [x |-> k % GridWidth, y |-> k \div GridWidth]

\* let index = (id.y * config.width + id.x) as usize;
PixelIndex(id, width) == id.y * width + id.x

\* if id.x > config.width || id.y > config.height { return; }
KernelReturnsEarly(id, width, height) == id.x > width \/ id.y > height

NoWrites == [i \in 0..(screen_width * screen_height - 1) |-> 0]

DispatchInit ==
    /\ screen_width \in 1..MaxWidth
    /\ screen_height \in 1..MaxHeight
    /\ pass = "none"
    /\ next_id = 0
    /\ writes = NoWrites
    /\ stray_writes = 0

\* rt.0.enqueue(screen_width.div_ceil(8), screen_height.div_ceil(8), 1)
Enqueue ==
    /\ pass = "none"
    /\ pass' = "gpu"
    /\ UNCHANGED <<screen_width, screen_height, next_id, writes, stray_writes>>

\* One invocation of main_material: output[index] += ..; rng[index] = ..
\* unless the guard returned; an index past the end is a stray write.
MainMaterial ==
    /\ pass = "gpu"
    /\ next_id < GridWidth * GridHeight
    /\ LET id == GlobalInvocationId(next_id)
           index == PixelIndex(id, screen_width)
       IN  IF KernelReturnsEarly(id, screen_width, screen_height)
             THEN UNCHANGED <<writes, stray_writes>>
             ELSE IF index < screen_width * screen_height
                    THEN /\ writes' = [writes EXCEPT ![index] = @ + 1]
                         /\ UNCHANGED stray_writes
                    ELSE /\ stray_writes' = stray_writes + 1
                         /\ UNCHANGED writes
    /\ next_id' = next_id + 1
    /\ UNCHANGED <<screen_width, screen_height, pass>>

\* trace_cpu: output_buffer.par_chunks_mut(screen_width).enumerate()
\*            .zip(rng_buffer.par_chunks_mut(screen_width))
CpuPass ==
    /\ pass = "none"
    /\ pass' = "cpu"
    /\ UNCHANGED <<screen_width, screen_height, next_id, writes, stray_writes>>

\* The task of row y = next_id: for x in 0..screen_width, output[x] and
\* rng[x] of its own chunk, the cells y * width .. y * width + width - 1.
RowTask ==
    /\ pass = "cpu"
    /\ next_id < screen_height
    /\ writes' = [i \in DOMAIN writes |->
                    IF i \div screen_width = next_id THEN writes[i] + 1
                                                     ELSE writes[i]]
    /\ next_id' = next_id + 1
    /\ UNCHANGED <<screen_width, screen_height, pass, stray_writes>>

\* poll_blocking / for_each returns when every invocation or task is done.
PassComplete ==
    /\ \/ pass = "gpu" /\ next_id = GridWidth * GridHeight
       \/ pass = "cpu" /\ next_id = screen_height
    /\ pass' = "done"
    /\ UNCHANGED <<screen_width, screen_height, next_id, writes, stray_writes>>

DispatchNext ==
    \/ Enqueue /\ UNCHANGED <<driverVars, lightVars, bvhVars, extraVars>>
    \/ MainMaterial /\ UNCHANGED <<driverVars, lightVars, bvhVars, extraVars>>
    \/ CpuPass /\ UNCHANGED <<driverVars, lightVars, bvhVars, extraVars>>
    \/ RowTask /\ UNCHANGED <<driverVars, lightVars, bvhVars, extraVars>>
    \/ PassComplete /\ UNCHANGED <<driverVars, lightVars, bvhVars, extraVars>>

\* ------------------------------------------------------- ray intersection
\* Coordinates are integers and ray directions are unit vectors along an
\* axis, so every f32 the code computes here is exact.  An f32 that may be
\* infinite or NaN is a pair <<class, value>>.
NegInf == <<0, 0>>
Fin(v) == <<1, v>>
PosInf == <<2, 0>>
NaN == <<3, 0>>

IsNaN(a) == a[1] = 3
is_infinite(a) == a[1] = 0 \/ a[1] = 2
is_finite(a) == a[1] = 1

\* a < b on f32: false when either side is NaN.
FLess(a, b) ==
    /\ ~IsNaN(a)
    /\ ~IsNaN(b)
    /\ \/ a[1] < b[1]
       \/ a[1] = 1 /\ b[1] = 1 /\ a[2] < b[2]

\* f32::min and f32::max: the other operand when one is NaN.
FMin(a, b) == IF IsNaN(a) THEN b ELSE IF IsNaN(b) THEN a
              ELSE IF FLess(b, a) THEN b ELSE a
FMax(a, b) == IF IsNaN(a) THEN b ELSE IF IsNaN(b) THEN a
              ELSE IF FLess(a, b) THEN b ELSE a

\* n / d for a direction component d in {-1, 0, 1}: 0 / 0 is NaN and
\* x / 0 is an infinity with the sign of x.
FDiv(n, d) ==
    IF d = 0 THEN (IF n = 0 THEN NaN ELSE IF n > 0 THEN PosInf ELSE NegInf)
    ELSE Fin(n * d)

VSub(a, b) == <<a[1] - b[1], a[2] - b[2], a[3] - b[3]>>
VDot(a, b) == a[1] * b[1] + a[2] * b[2] + a[3] * b[3]
VCross(a, b) == <<a[2] * b[3] - a[3] * b[2],
                  a[3] * b[1] - a[1] * b[3],
                  a[1] * b[2] - a[2] * b[1]>>

\* A distance t is the fraction <<numerator, denominator>>, denominator > 0.
TLess(s, t) == s[1] * t[2] < t[1] * s[2]
\* t > 0.001, without a product that could overflow
TAboveEps(t) == t[1] > t[2] \div 1000
\* TraceResult::default().t
DefaultT == <<1000000, 1>>
\* t < 1000000.0 for a t that has not been compared with a hit yet
TBelowDefault(t) == t[1] \div t[2] < DefaultT[1]
TBelow(s, t) == IF t = DefaultT THEN TBelowDefault(s) ELSE TLess(s, t)

\* muller_trumbore: [hit, t]; det, u, v, t are integers over det, and
\* det.abs() < 1e-6 is det = 0.
muller_trumbore(ray_o, ray_d, a, b, c) ==
    LET edge1 == VSub(b, a)
        edge2 == VSub(c, a)
        pv == VCross(ray_d, edge2)
        det == VDot(edge1, pv)
        sgn == IF det < 0 THEN -1 ELSE 1
        den == det * sgn
        tv == VSub(ray_o, a)
        u == VDot(tv, pv) * sgn
        qv == VCross(tv, edge1)
        v == VDot(ray_d, qv) * sgn
        t == VDot(edge2, qv) * sgn
    IN  IF det = 0 THEN [hit |-> FALSE, t |-> <<0, 1>>]
        ELSE IF u < 0 \/ u > den THEN [hit |-> FALSE, t |-> <<0, 1>>]
        ELSE IF v < 0 \/ u + v > den THEN [hit |-> FALSE, t |-> <<0, 1>>]
        ELSE IF t < 0 THEN [hit |-> FALSE, t |-> <<0, 1>>]
        ELSE [hit |-> TRUE, t |-> <<t, den>>]

DefaultResult == [hit |-> FALSE, t |-> DefaultT, triangle_index |-> 0]

\* The test both loops apply to one triangle (NEAREST_HIT || t <= max_t is
\* added by the traversal).
HitsCloser(ray_o, ray_d, tri, best) ==
    LET m == muller_trumbore(ray_o, ray_d, tri[1], tri[2], tri[3])
    IN  m.hit /\ TAboveEps(m.t) /\ TBelow(m.t, best)

\* intersect_slow_as_shit: the loop over all triangles in buffer order.
RECURSIVE SlowFrom(_, _, _, _, _)
SlowFrom(index_buffer, i, ray_o, ray_d, res) ==
    IF i > Len(index_buffer) THEN res
    ELSE LET tri == index_buffer[i]
             m == muller_trumbore(ray_o, ray_d, tri[1], tri[2], tri[3])
         IN  SlowFrom(index_buffer, i + 1, ray_o, ray_d,
                 IF HitsCloser(ray_o, ray_d, tri, res.t)
                   THEN [hit |-> TRUE, t |-> m.t, triangle_index |-> i - 1]
                   ELSE res)

intersect_slow_as_shit(index_buffer, ray_o, ray_d) ==
    SlowFrom(index_buffer, 1, ray_o, ray_d, DefaultResult)

\* prev_min_t as an f32 pair is only compared with tmin: tmin < prev_min_t
TminBelow(tmin, prev_min_t) ==
    \/ tmin[1] = 0
    \/ tmin[1] = 1 /\ (IF prev_min_t = DefaultT THEN tmin[2] < DefaultT[1]
                       ELSE tmin[2] * prev_min_t[2] < prev_min_t[1])

\* intersect_aabb: the slab test; tmin or f32::INFINITY.
intersect_aabb(aabb_min, aabb_max, ray_o, ray_d, prev_min_t) ==
    LET tx1 == FDiv(aabb_min[1] - ray_o[1], ray_d[1])
        tx2 == FDiv(aabb_max[1] - ray_o[1], ray_d[1])
        ty1 == FDiv(aabb_min[2] - ray_o[2], ray_d[2])
        ty2 == FDiv(aabb_max[2] - ray_o[2], ray_d[2])
        tz1 == FDiv(aabb_min[3] - ray_o[3], ray_d[3])
        tz2 == FDiv(aabb_max[3] - ray_o[3], ray_d[3])
        tmin == FMax(FMax(FMin(tx1, tx2), FMin(ty1, ty2)), FMin(tz1, tz2))
        tmax == FMin(FMin(FMax(tx1, tx2), FMax(ty1, ty2)), FMax(tz1, tz2))
    IN  IF /\ ~IsNaN(tmax) /\ ~IsNaN(tmin) /\ ~FLess(tmax, tmin)
           /\ FLess(Fin(0), tmax)
           /\ TminBelow(tmin, prev_min_t)
          THEN tmin ELSE PosInf

\* ------------------------------------------------------------ BVH build
\* A triangle is <<v0, v1, v2>> with integer vertices; `indices` is the
\* index buffer with the vertices written in place of their indices.
\* Centroids are kept times 3 and split planes times 3 * sah_samples.
Min2(a, b) == IF a <= b THEN a ELSE b
Max2(a, b) == IF a >= b THEN a ELSE b
VMin(a, b) == <<Min2(a[1], b[1]), Min2(a[2], b[2]), Min2(a[3], b[3])>>
VMax(a, b) == <<Max2(a[1], b[1]), Max2(a[2], b[2]), Max2(a[3], b[3])>>

\* BVHNode::default(): an empty box, no triangles.
DefaultNode ==
    [aabb_min |-> <<PosInf, PosInf, PosInf>>,
     aabb_max |-> <<NegInf, NegInf, NegInf>>,
     triangle_count |-> 0, w |-> 0]

is_leaf(node) == node.triangle_count > 0
left_node_index(node) == node.w
right_node_index(node) == node.w + 1
first_triangle_index(node) == node.w

\* A box of the sweep: empty (the default node) or [mn, mx].
EmptyBox == [empty |-> TRUE, mn |-> <<0, 0, 0>>, mx |-> <<0, 0, 0>>]
TriangleBox(tri) ==
    [empty |-> FALSE,
     mn |-> VMin(VMin(tri[1], tri[2]), tri[3]),
     mx |-> VMax(VMax(tri[1], tri[2]), tri[3])]

\* encapsulate / encapsulate_node (an empty box is skipped)
encapsulate_node(box, other) ==
    IF other.empty THEN box
    ELSE IF box.empty THEN other
    ELSE [empty |-> FALSE, mn |-> VMin(box.mn, other.mn),
          mx |-> VMax(box.mx, other.mx)]

\* extent.x * extent.y + extent.y * extent.z + extent.z * extent.x; the
\* empty box has extent -inf on every axis and area +inf.
area(box) ==
    IF box.empty THEN PosInf
    ELSE LET extent == VSub(box.mx, box.mn)
         IN  Fin(extent[1] * extent[2] + extent[2] * extent[3]
                 + extent[3] * extent[1])

\* count as f32 * area: 0 * inf is NaN.
CountTimesArea(count, a) ==
    IF is_finite(a) THEN Fin(count * a[2])
    ELSE IF count = 0 THEN NaN ELSE a

FAdd(a, b) ==
    IF IsNaN(a) \/ IsNaN(b) THEN NaN
    ELSE IF is_finite(a) /\ is_finite(b) THEN Fin(a[2] + b[2])
    ELSE IF is_finite(a) THEN b
    ELSE IF is_finite(b) THEN a
    ELSE IF a = b THEN a ELSE NaN

Centroid3(tri) == <<tri[1][1] + tri[2][1] + tri[3][1],
                    tri[1][2] + tri[2][2] + tri[3][2],
                    tri[1][3] + tri[2][3] + tri[3][3]>>

\* update_node_aabb: the box of the node's triangles.
RECURSIVE BoxOfRange(_, _, _)
BoxOfRange(buffer, first, count) ==
    IF count = 0 THEN EmptyBox
    ELSE encapsulate_node(BoxOfRange(buffer, first, count - 1),
                          TriangleBox(buffer[first + count]))

update_node_aabb(node, buffer) ==
    LET box == BoxOfRange(buffer, first_triangle_index(node), node.triangle_count)
    IN  [node EXCEPT !.aabb_min = box.mn, !.aabb_max = box.mx]

NodeBox(node) == [empty |-> FALSE, mn |-> node.aabb_min, mx |-> node.aabb_max]

\* bounds_min / bounds_max of the centroids of a node on one axis (times 3)
CentroidsOn(buffer, first, count, axis) ==
    {Centroid3(buffer[j])[axis] : j \in (first + 1)..(first + count)}

CentroidMin(buffer, first, count, axis) ==
    LET cs == CentroidsOn(buffer, first, count, axis)
    IN  CHOOSE m \in cs : \A c \in cs : m <= c

CentroidMax(buffer, first, count, axis) ==
    LET cs == CentroidsOn(buffer, first, count, axis)
    IN  CHOOSE m \in cs : \A c \in cs : m >= c

\* ((centroid - bounds_min) * scale) as usize, .min(sah_samples - 1)
SegmentIndex(c3, bounds_min, bounds_max) ==
    Min2(((c3 - bounds_min) * sah_samples) \div (bounds_max - bounds_min),
         sah_samples - 1)

EmptySegment == [aabb |-> EmptyBox, triangle_count |-> 0]

\* The loops below run over an index range in order; each is written as
\* "first half, then second half from where the first half ended", which
\* visits the same indices in the same order.  Then(value, Rest) is
\* Rest(value) with value computed before Rest is entered.
Then(value, Rest(_)) == CHOOSE r \in {Rest(v) : v \in {value}} : TRUE

\* "build segments and fill them with triangles": triangles lo .. hi of
\* the buffer (counting from 1) are added to the segments in order.
RECURSIVE FillSegments(_, _, _, _, _, _, _)
FillSegments(segments, buffer, lo, hi, axis, bounds_min, bounds_max) ==
    IF lo > hi THEN segments
    ELSE IF lo = hi
      THEN LET tri == buffer[lo]
               k == SegmentIndex(Centroid3(tri)[axis], bounds_min, bounds_max)
           IN  [segments EXCEPT ![k + 1] =
                   [aabb |-> encapsulate_node(segments[k + 1].aabb,
                                              TriangleBox(tri)),
                    triangle_count |-> segments[k + 1].triangle_count + 1]]
      ELSE LET mid == (lo + hi) \div 2
           IN  Then(FillSegments(segments, buffer, lo, mid, axis,
                                 bounds_min, bounds_max),
                    LAMBDA filled :
                        FillSegments(filled, buffer, mid + 1, hi, axis,
                                     bounds_min, bounds_max))

\* The sweep from the left over i = from .. to: left_sum and left_box start
\* as acc; the result holds [sum, area] for each i, then the accumulators.
\* Segment i of the code is segments[i + 1].
RECURSIVE SweepLeft(_, _, _, _)
SweepLeft(segments, from, to, acc) ==
    IF from = to
      THEN LET box == encapsulate_node(acc.aabb, segments[from + 1].aabb)
               sum == acc.triangle_count + segments[from + 1].triangle_count
           IN  [out |-> <<[sum |-> sum, area |-> area(box)]>>,
                acc |-> [aabb |-> box, triangle_count |-> sum]]
      ELSE LET mid == (from + to) \div 2
           IN  Then(SweepLeft(segments, from, mid, acc), LAMBDA l :
               Then(SweepLeft(segments, mid + 1, to, l.acc), LAMBDA r :
                    [out |-> l.out \o r.out, acc |-> r.acc]))

\* The sweep from the right: turn i reads segment sah_samples - 1 - i and
\* fills entry sah_samples - 2 - i, so the entries come out back to front.
RECURSIVE SweepRight(_, _, _, _)
SweepRight(segments, from, to, acc) ==
    IF from = to
      THEN LET seg == segments[sah_samples - 1 - from + 1]
               box == encapsulate_node(acc.aabb, seg.aabb)
               sum == acc.triangle_count + seg.triangle_count
           IN  [out |-> <<[sum |-> sum, area |-> area(box)]>>,
                acc |-> [aabb |-> box, triangle_count |-> sum]]
      ELSE LET mid == (from + to) \div 2
           IN  Then(SweepRight(segments, from, mid, acc), LAMBDA l :
               Then(SweepRight(segments, mid + 1, to, l.acc), LAMBDA r :
                    [out |-> r.out \o l.out, acc |-> r.acc]))

\* "evaluate SAH for each split, pick the best" over planes from .. to:
\* best is replaced whenever cost < best_cost.  best is [axis, split, cost]
\* with split = 3 * sah_samples * best_split.
RECURSIVE PickSplit(_, _, _, _, _, _, _, _)
PickSplit(lefts, rights, from, to, axis, bounds_min, bounds_max, best) ==
    IF from = to
      THEN LET cost == FAdd(CountTimesArea(lefts[from + 1].sum,
                                           lefts[from + 1].area),
                            CountTimesArea(rights[from + 1].sum,
                                           rights[from + 1].area))
           IN  IF FLess(cost, best.cost)
                 THEN [axis |-> axis,
                       split |-> sah_samples * bounds_min
                                 + (bounds_max - bounds_min) * (from + 1),
                       cost |-> cost]
                 ELSE best
      ELSE LET mid == (from + to) \div 2
           IN  Then(PickSplit(lefts, rights, from, mid, axis, bounds_min,
                              bounds_max, best),
                    LAMBDA so_far :
                        PickSplit(lefts, rights, mid + 1, to, axis,
                                  bounds_min, bounds_max, so_far))

\* One turn of "for axis in 0..3"; a flat axis is skipped.
SplitOnAxis(buffer, node, axis, best) ==
    LET first == first_triangle_index(node)
        count == node.triangle_count
        bounds_min == CentroidMin(buffer, first, count, axis)
        bounds_max == CentroidMax(buffer, first, count, axis)
        segments == FillSegments([k \in 1..sah_samples |-> EmptySegment],
                                 buffer, first + 1, first + count, axis,
                                 bounds_min, bounds_max)
        lefts == SweepLeft(segments, 0, sah_samples - 2, EmptySegment).out
        rights == SweepRight(segments, 0, sah_samples - 2, EmptySegment).out
    IN  IF bounds_min = bounds_max THEN best
        ELSE PickSplit(lefts, rights, 0, sah_samples - 2, axis,
                       bounds_min, bounds_max, best)

find_best_split_segmented(buffer, node) ==
    LET none == [axis |-> 1, split |-> 0, cost |-> PosInf]
    IN  Then(SplitOnAxis(buffer, node, 1, none), LAMBDA on_x :
        Then(SplitOnAxis(buffer, node, 2, on_x), LAMBDA on_y :
             SplitOnAxis(buffer, node, 3, on_y)))

SwapAt(buffer, i, j) == [buffer EXCEPT ![i] = buffer[j], ![j] = buffer[i]]

\* "partition the triangles": while a <= b; a and b count from 0.
RECURSIVE Partition(_, _, _, _, _)
Partition(buffer, a, b, axis, split) ==
    IF a > b THEN [buffer |-> buffer, a |-> a]
    ELSE IF sah_samples * Centroid3(buffer[a + 1])[axis] < split
           THEN Partition(buffer, a + 1, b, axis, split)
           ELSE Partition(SwapAt(buffer, a + 1, b + 1), a, b - 1, axis, split)

\* BVHBuilder::new: every one of the 2 * len - 1 nodes is the default node.
DefaultNodes(n) == [i \in 1..n |-> DefaultNode]

BvhIdle ==
    /\ indices = <<>>
    /\ nodes = <<>>
    /\ node_count = 0
    /\ build_stack = <<>>
    /\ bvh_pc = "none"
    /\ ro = <<0, 0, 0>>
    /\ rd = <<0, 0, 1>>
    /\ nearest_hit = TRUE
    /\ max_t = 0
    /\ stack = <<>>
    /\ result = DefaultResult

\* indices.len() * 2 - 1 in usize (bvh.rs:69): with no triangle the
\* subtraction overflows.  With overflow checks that is a panic; without
\* them the length is usize::MAX, which vec! cannot allocate ("capacity
\* overflow"), a panic as well.
NodesLenOverflows(scene) == Len(scene) * 2 < 1

BuilderNew(scene) ==
    /\ indices = scene
    /\ nodes = DefaultNodes(2 * Len(scene) - 1)
    /\ node_count = 0
    /\ build_stack = <<>>
    /\ bvh_pc = IF NodesLenOverflows(scene) THEN "panic" ELSE "new"
    /\ ro = <<0, 0, 0>>
    /\ rd = <<0, 0, 1>>
    /\ nearest_hit = TRUE
    /\ max_t = 0
    /\ stack = <<>>
    /\ result = DefaultResult

\* build, up to the loop: the root holds every triangle.
BuildRoot ==
    /\ bvh_pc = "new"
    /\ node_count' = 1
    /\ nodes' = [nodes EXCEPT ![1] =
                   update_node_aabb([DefaultNode EXCEPT !.w = 0,
                                       !.triangle_count = Len(indices)],
                                    indices)]
    /\ build_stack' = <<0>>
    /\ bvh_pc' = "build"
    /\ UNCHANGED <<indices, ro, rd, nearest_hit, max_t, stack, result>>

\* One iteration of "while !stack.is_empty()" in build.
BuildNode ==
    /\ bvh_pc = "build"
    /\ build_stack # <<>>
    /\ LET node_idx == build_stack[Len(build_stack)]
           popped == SubSeq(build_stack, 1, Len(build_stack) - 1)
           node == nodes[node_idx + 1]
           best == find_best_split_segmented(indices, node)
           parent_cost == CountTimesArea(node.triangle_count, area(NodeBox(node)))
           a0 == first_triangle_index(node)
           parted == Partition(indices, a0, a0 + node.triangle_count - 1,
                               best.axis, best.split)
           left_count == parted.a - a0
           left_idx == node_count
           right_idx == node_count + 1
           left == update_node_aabb([DefaultNode EXCEPT !.w = a0,
                                       !.triangle_count = left_count],
                                    parted.buffer)
           right == update_node_aabb([DefaultNode EXCEPT !.w = parted.a,
                                        !.triangle_count =
                                            node.triangle_count - left_count],
                                     parted.buffer)
       IN  IF ~IsNaN(parent_cost) /\ ~IsNaN(best.cost)
              /\ ~FLess(best.cost, parent_cost)
             THEN \* parent_cost <= best_cost: the node stays a leaf
                  /\ build_stack' = popped
                  /\ UNCHANGED <<indices, nodes, node_count>>
             ELSE IF left_count = 0 \/ left_count = node.triangle_count
                    THEN \* partitioned, no children
                         /\ build_stack' = popped
                         /\ indices' = parted.buffer
                         /\ UNCHANGED <<nodes, node_count>>
                    ELSE /\ indices' = parted.buffer
                         /\ nodes' = [nodes EXCEPT
                                ![node_idx + 1] = [node EXCEPT !.w = left_idx,
                                                     !.triangle_count = 0],
                                ![left_idx + 1] = left,
                                ![right_idx + 1] = right]
                         /\ node_count' = node_count + 2
                         /\ build_stack' = popped \o <<right_idx, left_idx>>
    /\ UNCHANGED <<bvh_pc, ro, rd, nearest_hit, max_t, stack, result>>

\* Variant of the truncation that keeps one node less.
BuildTruncateShort ==
    /\ bvh_pc = "build"
    /\ build_stack = <<>>
    /\ nodes' = SubSeq(nodes, 1, node_count - 1)
    /\ bvh_pc' = "built"
    /\ UNCHANGED <<indices, node_count, build_stack, ro, rd, nearest_hit,
                   max_t, stack, result>>

\* self.nodes.truncate(node_count)
BuildTruncate ==
    /\ bvh_pc = "build"
    /\ build_stack = <<>>
    /\ nodes' = SubSeq(nodes, 1, node_count)
    /\ bvh_pc' = "built"
    /\ UNCHANGED <<indices, node_count, build_stack, ro, rd, nearest_hit,
                   max_t, stack, result>>

\* FixedVec::push: data[len] = value with no check of len against the
\* capacity; a push at len = 32 is outside the array.
PushOverflows(st, values) == Len(st) + Len(values) > StackCapacity

\* intersect_nearest (max_t = 0.0) or intersect_any: stack.push(0).
TraceStart(origin, direction, nearest, limit) ==
    /\ bvh_pc = "built"
    /\ ro' = origin
    /\ rd' = direction
    /\ nearest_hit' = nearest
    /\ max_t' = IF nearest THEN 0 ELSE limit
    /\ stack' = <<0>>
    /\ result' = DefaultResult
    /\ bvh_pc' = "trace"
    /\ UNCHANGED <<indices, nodes, node_count, build_stack>>

\* The leaf loop "for i in 0..node.triangle_count()": [result, returned].
RECURSIVE LeafLoop(_, _, _, _)
LeafLoop(node, i, res, returned) ==
    IF returned \/ i >= node.triangle_count THEN [result |-> res, returned |-> returned]
    ELSE LET triangle_index == first_triangle_index(node) + i
             tri == indices[triangle_index + 1]
             m == muller_trumbore(ro, rd, tri[1], tri[2], tri[3])
             accept == /\ HitsCloser(ro, rd, tri, res.t)
                       /\ (nearest_hit \/ m.t[1] <= max_t * m.t[2])
         IN  IF accept
               THEN LeafLoop(node, i + 1,
                             [hit |-> TRUE, t |-> m.t,
                              triangle_index |-> triangle_index],
                             ~nearest_hit)
               ELSE LeafLoop(node, i + 1, res, FALSE)

\* One iteration of "while !stack.is_empty()" in intersect_front_to_back.
TraceNode ==
    /\ bvh_pc = "trace"
    /\ stack # <<>>
    /\ LET node_index == stack[Len(stack)]
           popped == SubSeq(stack, 1, Len(stack) - 1)
           node == nodes[node_index + 1]
           leaf == LeafLoop(node, 0, result, FALSE)
           left_index == left_node_index(node)
           right_index == right_node_index(node)
           left_dist == intersect_aabb(nodes[left_index + 1].aabb_min,
                            nodes[left_index + 1].aabb_max, ro, rd, result.t)
           right_dist == intersect_aabb(nodes[right_index + 1].aabb_min,
                            nodes[right_index + 1].aabb_max, ro, rd, result.t)
           swap == FLess(right_dist, left_dist)
           min_index == IF swap THEN right_index ELSE left_index
           max_index == IF swap THEN left_index ELSE right_index
           min_dist == IF swap THEN right_dist ELSE left_dist
           max_dist == IF swap THEN left_dist ELSE right_dist
           pushes == IF is_infinite(min_dist) THEN <<>>
                     ELSE IF is_finite(max_dist) THEN <<max_index, min_index>>
                     ELSE <<min_index>>
       IN  IF is_leaf(node)
             THEN /\ result' = leaf.result
                  /\ stack' = popped
                  /\ bvh_pc' = IF leaf.returned THEN "done" ELSE "trace"
             ELSE /\ UNCHANGED result
                  /\ IF PushOverflows(popped, pushes)
                       THEN /\ stack' = popped
                            /\ bvh_pc' = "overflow"
                       ELSE /\ stack' = popped \o pushes
                            /\ bvh_pc' = "trace"
    /\ UNCHANGED <<indices, nodes, node_count, build_stack, ro, rd,
                   nearest_hit, max_t>>

\* The stack is empty: return result.
TraceReturn ==
    /\ bvh_pc = "trace"
    /\ stack = <<>>
    /\ bvh_pc' = "done"
    /\ UNCHANGED <<indices, nodes, node_count, build_stack, ro, rd,
                   nearest_hit, max_t, stack, result>>

\* ------------------------------------------- the setup_trace harness
\* setup_trace (trace.rs:329-344) builds a fresh TracingState, stores
\* running = true and spawns a watcher that stores running = false once
\* samples has reached the target; the caller then runs trace_gpu or
\* trace_cpu on the state.  Two such runs with the same back-end, config,
\* seeds, scene and target are modelled side by side.  Nobody stores
\* interacting or dirty, so no tick flushes; with identical seeds and config
\* the k-th sample of both runs is the same image, so an accumulator is
\* determined by the number of samples summed into it and a framebuffer by
\* that number and the count it was divided by.
Runs == {1, 2}

\* TracingState::new: sync_rate = 32 (trace.rs:75), capped by the bound.
HarnessSyncRate == MaxSyncRate

HarnessIdle ==
    /\ h_cpu = FALSE
    /\ h_target = 0
    /\ h_running = [r \in Runs |-> FALSE]
    /\ h_samples = [r \in Runs |-> 0]
    /\ h_framebuffer = [r \in Runs |-> [n |-> 0, div |-> 0]]
    /\ h_rpc = [r \in Runs |-> "none"]
    /\ h_output_buffer = [r \in Runs |-> 0]
    /\ h_finished_samples = [r \in Runs |-> 0]
    /\ h_batch_left = [r \in Runs |-> 0]
    /\ h_watcher = [r \in Runs |-> "none"]
    /\ h_scene_loads = TRUE

\* setup_trace(width, height, samples) followed by the call of the trace
\* function on a scene path that loads or does not.
HarnessInit ==
    /\ h_cpu \in BOOLEAN
    /\ h_target \in 0..MaxSamples
    /\ h_running = [r \in Runs |-> TRUE]
    /\ h_samples = [r \in Runs |-> 0]
    /\ h_framebuffer = [r \in Runs |-> [n |-> 0, div |-> 0]]
    /\ h_rpc = [r \in Runs |-> "load"]
    /\ h_output_buffer = [r \in Runs |-> 0]
    /\ h_finished_samples = [r \in Runs |-> 0]
    /\ h_batch_left = [r \in Runs |-> 0]
    /\ h_watcher = [r \in Runs |-> "spin"]
    /\ h_scene_loads \in BOOLEAN

\* World::from_path(scene_path) else return; samples = 0, so the restored
\* accumulator is zero (trace.rs:141-143, 231-233).
HarnessLoad(r) ==
    /\ h_rpc[r] = "load"
    /\ h_rpc' = [h_rpc EXCEPT ![r] = IF h_scene_loads THEN "head" ELSE "done"]
    /\ UNCHANGED <<h_cpu, h_target, h_running, h_samples, h_framebuffer,
                   h_output_buffer, h_finished_samples, h_batch_left,
                   h_watcher, h_scene_loads>>

\* Variant of the watcher that does not wait for the sample target.
WatcherStopAtOnce(r) ==
    /\ h_watcher[r] = "spin"
    /\ h_running' = [h_running EXCEPT ![r] = FALSE]
    /\ h_watcher' = [h_watcher EXCEPT ![r] = "done"]
    /\ UNCHANGED <<h_cpu, h_target, h_samples, h_framebuffer, h_rpc,
                   h_output_buffer, h_finished_samples, h_batch_left,
                   h_scene_loads>>

\* while state.samples.load() < samples { yield_now(); }
\* state.running.store(false)
WatcherStop(r) ==
    /\ h_watcher[r] = "spin"
    /\ h_samples[r] >= h_target
    /\ h_running' = [h_running EXCEPT ![r] = FALSE]
    /\ h_watcher' = [h_watcher EXCEPT ![r] = "done"]
    /\ UNCHANGED <<h_cpu, h_target, h_samples, h_framebuffer, h_rpc,
                   h_output_buffer, h_finished_samples, h_batch_left, h_scene_loads>>

\* while state.running.load(Ordering::Relaxed) of either trace function
HarnessLoopHead(r) ==
    /\ h_rpc[r] = "head"
    /\ IF ~h_running[r]
         THEN /\ h_rpc' = [h_rpc EXCEPT ![r] = "done"]
              /\ UNCHANGED <<h_finished_samples, h_batch_left>>
         ELSE /\ h_samples[r] <= MaxSamples
              /\ IF h_cpu
                   THEN /\ h_rpc' = [h_rpc EXCEPT ![r] = "c_trace"]
                        /\ UNCHANGED <<h_finished_samples, h_batch_left>>
                   ELSE /\ h_rpc' = [h_rpc EXCEPT ![r] = "g_dispatch"]
                        /\ h_finished_samples' = [h_finished_samples EXCEPT ![r] = 0]
                        /\ h_batch_left' = [h_batch_left EXCEPT ![r] = HarnessSyncRate]
    /\ UNCHANGED <<h_cpu, h_target, h_running, h_samples, h_framebuffer,
                   h_output_buffer, h_watcher, h_scene_loads>>

\* trace_cpu: one pass over the image (trace.rs:276-299)
HarnessCpuTrace(r) ==
    /\ h_rpc[r] = "c_trace"
    /\ h_output_buffer' = [h_output_buffer EXCEPT ![r] = @ + 1]
    /\ h_finished_samples' = [h_finished_samples EXCEPT ![r] = 1]
    /\ h_rpc' = [h_rpc EXCEPT ![r] = "publish"]
    /\ UNCHANGED <<h_cpu, h_target, h_running, h_samples, h_framebuffer,
                   h_batch_left, h_watcher, h_scene_loads>>

\* trace_gpu: enqueue, poll_blocking, finished_samples += 1 (trace.rs:183-185)
HarnessGpuDispatch(r) ==
    /\ h_rpc[r] = "g_dispatch"
    /\ h_output_buffer' = [h_output_buffer EXCEPT ![r] = @ + 1]
    /\ h_finished_samples' = [h_finished_samples EXCEPT ![r] = @ + 1]
    /\ h_batch_left' = [h_batch_left EXCEPT ![r] = @ - 1]
    /\ h_rpc' = [h_rpc EXCEPT ![r] = "g_running"]
    /\ UNCHANGED <<h_cpu, h_target, h_running, h_samples, h_framebuffer,
                   h_watcher, h_scene_loads>>

\* trace_gpu: flush stays false; if !running { return; }; next iteration
HarnessGpuRunningCheck(r) ==
    /\ h_rpc[r] = "g_running"
    /\ h_rpc' = [h_rpc EXCEPT ![r] =
                    IF ~h_running[r] THEN "done"
                    ELSE IF h_batch_left[r] > 0 THEN "g_dispatch" ELSE "publish"]
    /\ UNCHANGED <<h_cpu, h_target, h_running, h_samples, h_framebuffer,
                   h_output_buffer, h_finished_samples, h_batch_left,
                   h_watcher, h_scene_loads>>

\* samples.fetch_add(finished); divide by samples.load(); framebuffer.write()
HarnessPublish(r) ==
    /\ h_rpc[r] = "publish"
    /\ h_samples' = [h_samples EXCEPT ![r] = @ + h_finished_samples[r]]
    /\ h_framebuffer' = [h_framebuffer EXCEPT ![r] =
                            [n |-> h_output_buffer[r], div |-> h_samples'[r]]]
    /\ h_rpc' = [h_rpc EXCEPT ![r] = "head"]
    /\ UNCHANGED <<h_cpu, h_target, h_running, h_output_buffer,
                   h_finished_samples, h_batch_left, h_watcher, h_scene_loads>>

notHarness == <<driverVars, dispatchVars, lightVars, bvhVars, pathVars, direct_sample,
    kernelVars>>

HarnessNext ==
    \/ \E r \in Runs : HarnessLoad(r) /\ UNCHANGED notHarness
    \/ \E r \in Runs : WatcherStop(r) /\ UNCHANGED notHarness
    \/ \E r \in Runs : HarnessLoopHead(r) /\ UNCHANGED notHarness
    \/ \E r \in Runs : HarnessCpuTrace(r) /\ UNCHANGED notHarness
    \/ \E r \in Runs : HarnessGpuDispatch(r) /\ UNCHANGED notHarness
    \/ \E r \in Runs : HarnessGpuRunningCheck(r) /\ UNCHANGED notHarness
    \/ \E r \in Runs : HarnessPublish(r) /\ UNCHANGED notHarness

\* ------------------------------------------------ the per-pixel tracer
\* main_material (kernels/src/lib.rs:288-454), the bounce loop of one
\* invocation.  A Vec3 of f32 is abstracted to its class: "zero", "fin"
\* (finite, not all zero), "inf" (an infinite component, no NaN) or "nan".
\* Rounding of finite values to infinity is left out.
FloatClass == {"zero", "fin", "inf", "nan"}

NeeModes == {"None", "MultipleImportanceSampling", "DirectLightSampling"}

uses_nee(mode) == mode # "None"

uses_mis(mode) == mode = "MultipleImportanceSampling"

\* Vec3::is_finite
is_finite3(v) == v \in {"zero", "fin"}

\* util::mask_nan
mask_nan(v) == IF is_finite3(v) THEN v ELSE "zero"

\* a + b, component-wise (all terms are non-negative)
VAdd3(a, b) ==
    IF a = "nan" \/ b = "nan" THEN "nan"
    ELSE IF a = "inf" \/ b = "inf" THEN "inf"
    ELSE IF a = "zero" THEN b
    ELSE "fin"

\* a * b, component-wise: the classes the product can have (inf * 0 = NaN
\* in a component where the finite factor is zero).
VMul3(a, b) ==
    IF a = "nan" \/ b = "nan" THEN {"nan"}
    ELSE IF a = "inf" \/ b = "inf"
           THEN IF a = "zero" \/ b = "zero" THEN {"nan"} ELSE {"inf", "nan"}
    ELSE IF a = "zero" \/ b = "zero" THEN {"zero"}
    ELSE {"fin"}

\* Russian roulette: prob = throughput.max_element(); the path survives
\* unless gen_r1() > prob, a comparison that is false for NaN and for
\* prob = inf; gen_r1() can be exactly 0.0 (rng.rs:31-34), so survival is
\* possible for every prob.
CanBreak(tp) == tp \in {"zero", "fin"}

\* throughput *= 1.0 / prob
Reweighted(tp) ==
    IF tp = "fin" THEN "fin" ELSE "nan"

NoEvent ==
    [bounce |-> 0, hit |-> FALSE, emissive |-> FALSE, backface |-> FALSE,
     prev_lobe |-> "DiffuseReflection", ended |-> FALSE, term |-> "none",
     added |-> "zero", sampled_bsdf |-> FALSE, did_nee |-> FALSE]

PathIdle ==
    /\ nee_mode = "None"
    /\ max_bounces = 0
    /\ min_bounces = 0
    /\ bounce = 0
    /\ throughput = "fin"
    /\ radiance = "zero"
    /\ last_lobe = "DiffuseReflection"
    /\ path_pc = "none"
    /\ event = NoEvent
    /\ output_added = "zero"

ExtraIdle ==
    HarnessIdle /\ PathIdle /\ direct_sample = DefaultDirectSample /\ KernelIdle

\* throughput = Vec3::ONE, radiance = Vec3::ZERO, last_bsdf_sample default
\* (lib.rs:332-335); nee, max_bounces, min_bounces from the config.
PathInit ==
    /\ nee_mode \in NeeModes
    /\ max_bounces \in 0..MaxBounces
    /\ min_bounces \in 0..MaxBounces
    /\ bounce = 0
    /\ throughput = "fin"
    /\ radiance = "zero"
    /\ last_lobe = "DiffuseReflection"
    /\ path_pc = "loop"
    /\ event = NoEvent
    /\ output_added = "zero"

\* if !trace_result.hit { radiance += throughput * skybox::scatter(..); break; }
SkyMiss(sky) ==
    /\ path_pc = "loop"
    /\ bounce < max_bounces
    /\ \E term \in VMul3(throughput, sky) :
          /\ radiance' = VAdd3(radiance, term)
          /\ event' = [NoEvent EXCEPT !.bounce = bounce, !.prev_lobe = last_lobe,
                                      !.ended = TRUE, !.term = "sky",
                                      !.added = term]
    /\ path_pc' = "write"
    /\ UNCHANGED <<nee_mode, max_bounces, min_bounces, bounce, throughput,
                   last_lobe, output_added>>

\* Variant of the emissive branch without the single-sidedness test.
EndsAtBackfaceNever(backface) == FALSE

\* if trace_result.backface { break; }
EndsAtBackface(backface) == backface

\* if !nee || bounce == 0 || last lobe is not diffuse { radiance += emission }
AddsEmission ==
    \/ ~uses_nee(nee_mode)
    \/ bounce = 0
    \/ last_lobe # "DiffuseReflection"

\* if nee_mode.uses_mis() && last lobe is diffuse { radiance += MIS term }
AddsMis == uses_mis(nee_mode) /\ last_lobe = "DiffuseReflection"

\* The hit is on an emissive triangle and one of the three breaks is taken
\* (lib.rs:350-374).
EmissiveHit(backface, mis) ==
    /\ path_pc = "loop"
    /\ bounce < max_bounces
    /\ \/ /\ EndsAtBackface(backface)
          /\ UNCHANGED radiance
          /\ event' = [NoEvent EXCEPT !.bounce = bounce, !.hit = TRUE,
                                      !.emissive = TRUE, !.backface = backface,
                                      !.prev_lobe = last_lobe, !.ended = TRUE]
       \/ /\ ~EndsAtBackface(backface)
          /\ AddsEmission
          /\ \E term \in VMul3(throughput, "fin") :
                /\ radiance' = VAdd3(radiance, mask_nan(term))
                /\ event' = [NoEvent EXCEPT !.bounce = bounce, !.hit = TRUE,
                                  !.emissive = TRUE, !.backface = backface,
                                  !.prev_lobe = last_lobe, !.ended = TRUE,
                                  !.term = "emission", !.added = mask_nan(term)]
       \/ /\ ~EndsAtBackface(backface)
          /\ ~AddsEmission
          /\ AddsMis
          /\ radiance' = VAdd3(radiance, mask_nan(mis))
          /\ event' = [NoEvent EXCEPT !.bounce = bounce, !.hit = TRUE,
                            !.emissive = TRUE, !.backface = backface,
                            !.prev_lobe = last_lobe, !.ended = TRUE,
                            !.term = "mis", !.added = mask_nan(mis)]
    /\ path_pc' = "write"
    /\ UNCHANGED <<nee_mode, max_bounces, min_bounces, bounce, throughput,
                   last_lobe, output_added>>

\* The rest of the iteration (lib.rs:376-446), reached by a hit on a
\* non-emissive triangle and by an emissive hit that took none of the
\* breaks: sample the BSDF, sample the lights if the diffuse lobe was
\* sampled, attenuate, move the ray, Russian roulette.
FallsThrough(emissive, backface) ==
    emissive => (~EndsAtBackface(backface) /\ ~AddsEmission /\ ~AddsMis)

SurfaceBounce(emissive, backface, lobe, light, attenuation, survives) ==
    /\ path_pc = "loop"
    /\ bounce < max_bounces
    /\ FallsThrough(emissive, backface)
    /\ LET nee_now == uses_nee(nee_mode) /\ lobe = "DiffuseReflection"
           direct == IF nee_now THEN mask_nan(light) ELSE "zero"
       IN  /\ radiance' = VAdd3(radiance, direct)
           /\ last_lobe' = lobe
           /\ \E attenuated \in VMul3(throughput, attenuation) :
                 LET roulette == bounce > min_bounces
                     breaks == roulette /\ ~survives
                 IN  /\ breaks => CanBreak(attenuated)
                     /\ ~roulette => survives
                     /\ throughput' = IF roulette /\ survives
                                        THEN Reweighted(attenuated)
                                        ELSE attenuated
                     /\ path_pc' = IF breaks THEN "write" ELSE "loop"
                     /\ bounce' = IF breaks THEN bounce ELSE bounce + 1
                     /\ event' = [NoEvent EXCEPT !.bounce = bounce, !.hit = TRUE,
                                       !.emissive = emissive, !.backface = backface,
                                       !.prev_lobe = last_lobe, !.ended = breaks,
                                       !.term = IF nee_now THEN "direct" ELSE "none",
                                       !.added = direct, !.sampled_bsdf = TRUE,
                                       !.did_nee = nee_now]
    /\ UNCHANGED <<nee_mode, max_bounces, min_bounces, output_added>>

\* for bounce in 0..config.max_bounces runs out
LoopEnd ==
    /\ path_pc = "loop"
    /\ bounce >= max_bounces
    /\ path_pc' = "write"
    /\ UNCHANGED <<nee_mode, max_bounces, min_bounces, bounce, throughput,
                   radiance, last_lobe, event, output_added>>

\* output[index] += radiance.extend(1.0)
WriteOutput ==
    /\ path_pc = "write"
    /\ output_added' = radiance
    /\ path_pc' = "done"
    /\ UNCHANGED <<nee_mode, max_bounces, min_bounces, bounce, throughput,
                   radiance, last_lobe, event>>

Lobes == {"DiffuseReflection", "SpecularReflection"}

notPath == <<driverVars, dispatchVars, lightVars, bvhVars, harnessVars, direct_sample,
    kernelVars>>

PathNext ==
    \/ \E sky \in {"zero", "fin"} : SkyMiss(sky) /\ UNCHANGED notPath
    \/ \E backface \in BOOLEAN, mis \in FloatClass :
          EmissiveHit(backface, mis) /\ UNCHANGED notPath
    \/ \E emissive, backface, survives \in BOOLEAN, lobe \in Lobes,
          light, attenuation \in FloatClass :
          SurfaceBounce(emissive, backface, lobe, light, attenuation, survives)
              /\ UNCHANGED notPath
    \/ LoopEnd /\ UNCHANGED notPath
    \/ WriteOutput /\ UNCHANGED notPath

\* ------------------------------------- the light pick table, checked
LightSpecInit == DriverIdle /\ DispatchIdle /\ LightInit /\ BvhIdle /\ ExtraIdle

LightSpec == LightSpecInit /\ [][LightNext]_vars

\* C7: pick_light on the built table returns every emissive triangle with
\* the chance power / total power that the table stores as its pick pdf.
C7_PickMatchesPower ==
    light_pc = "table" =>
        \A t \in 0..(total_tris - 1) : PickedWithStoredPdf(bins, t)

\* ---------------------------------- the light pick table with a sentinel
\* build_light_pick_table on every list of up to MaxLights emissive
\* triangles, the empty list and triangles of zero area (power 0) included,
\* followed by one call of sample_direct_lighting.
PickInit ==
    /\ triangle_powers \in SeqsUpTo(0..MaxPower, MaxLights)
    /\ light_pc = "powers"
    /\ bins = <<>>
    /\ bin_i = 0
    /\ most_probable = 0

notLight == <<driverVars, dispatchVars, bvhVars, harnessVars, pathVars, kernelVars>>

PickNext ==
    \/ TableSentinel /\ UNCHANGED <<notLight, direct_sample>>
    \/ TableOfNaN /\ UNCHANGED <<notLight, direct_sample>>
    \/ BuildBins /\ UNCHANGED <<notLight, direct_sample>>
    \/ RobinHood /\ UNCHANGED <<notLight, direct_sample>>
    \/ BuildTable /\ UNCHANGED <<notLight, direct_sample>>
    \/ \E contribution \in FloatClass :
          SampleDirectLighting(contribution) /\ UNCHANGED notLight

PickSpecInit == DriverIdle /\ DispatchIdle /\ PickInit /\ BvhIdle /\ ExtraIdle

PickSpec == PickSpecInit /\ [][PickNext]_vars

\* C19: without an emissive triangle the table is one entry with ratio < 0
\* and sample_direct_lighting returns a zero contribution without a pick, a
\* shadow ray or a random number; with an emissive triangle no entry of the
\* table has ratio < 0.
C19_SentinelIffNoLight ==
    light_pc \in {"table", "sampled"} =>
        /\ total_tris = 0 =>
              /\ Len(LightPickTable) = 1
              /\ is_sentinel(LightPickTable[1])
              /\ LightPickTable[1].ratio[1] * LightPickTable[1].ratio[2] < 0
              /\ light_pc = "sampled" => direct_sample = DefaultDirectSample
        /\ total_tris # 0 =>
              /\ Len(LightPickTable) >= 1
              /\ \A i \in DOMAIN LightPickTable :
                    LightPickTable[i].ratio[1] * LightPickTable[i].ratio[2] >= 0

C19_Witness ==
    /\ total_tris = 0
    /\ light_pc = "sampled"
    /\ direct_sample.rng_draws = 0
    /\ direct_sample.shadow_rays = 0

\* ------------------------------------------- one sample pass, checked
DispatchSpecInit == DriverIdle /\ DispatchInit /\ LightIdle /\ BvhIdle /\ ExtraIdle

DispatchSpec == DispatchSpecInit /\ [][DispatchNext]_vars

\* C4: in one pass every cell is written by at most one invocation or row
\* task and nothing is written outside 0 .. width * height - 1.
C4_OneWriterPerCell ==
    /\ \A i \in DOMAIN writes : writes[i] <= 1
    /\ stray_writes = 0

\* ------------------------------------------------- the BVH on small scenes
Triangles ==
    { <<<<1, 0, 5>>, <<1, 2, 5>>, <<2, 1, 5>>>>,
      <<<<10, 10, 5>>, <<11, 10, 5>>, <<10, 11, 5>>>>,
      <<<<0, 0, 3>>, <<3, 0, 3>>, <<0, 3, 3>>>>,
      <<<<0, 0, 8>>, <<4, 0, 8>>, <<0, 4, 9>>>> }

RayOrigins == { <<1, 1, -1>>, <<2, 2, -1>> }

\* normalized directions with exact components
AxisDirections ==
    { <<1, 0, 0>>, <<-1, 0, 0>>, <<0, 1, 0>>, <<0, -1, 0>>,
      <<0, 0, 1>>, <<0, 0, -1>> }

AnyLimits == { MaxAnyT \div 4, MaxAnyT }

BvhInit == \E scene \in SeqsUpTo(Triangles, MaxTris) \ {<<>>} : BuilderNew(scene)

BvhNext ==
    \/ BuildRoot /\ UNCHANGED <<driverVars, dispatchVars, lightVars, extraVars>>
    \/ BuildNode /\ UNCHANGED <<driverVars, dispatchVars, lightVars, extraVars>>
    \/ BuildTruncate /\ UNCHANGED <<driverVars, dispatchVars, lightVars, extraVars>>
    \/ \E origin \in RayOrigins, direction \in AxisDirections,
          nearest \in BOOLEAN, limit \in AnyLimits :
            TraceStart(origin, direction, nearest, limit)
            /\ UNCHANGED <<driverVars, dispatchVars, lightVars, extraVars>>
    \/ TraceNode /\ UNCHANGED <<driverVars, dispatchVars, lightVars, extraVars>>
    \/ TraceReturn /\ UNCHANGED <<driverVars, dispatchVars, lightVars, extraVars>>

BvhSpecInit == DriverIdle /\ DispatchIdle /\ LightIdle /\ BvhInit /\ ExtraIdle

BvhSpec == BvhSpecInit /\ [][BvhNext]_vars

\* C5: when intersect_nearest returns, its hit flag and its t are those of
\* the brute-force loop over the same index buffer.
C5_NearestMatchesBruteForce ==
    (bvh_pc = "done" /\ nearest_hit) =>
        LET slow == intersect_slow_as_shit(indices, ro, rd)
        IN  /\ result.hit = slow.hit
            /\ result.hit => (~TLess(result.t, slow.t) /\ ~TLess(slow.t, result.t))

\* ------------------------------------------------- the BVH builder alone
\* BVHBuilder::new(..).build() on every scene of up to MaxTris triangles,
\* the scene without triangles included (World::from_path builds the BVH of
\* whatever the file holds, asset.rs:196).
BuildInit == \E scene \in SeqsUpTo(Triangles, MaxTris) : BuilderNew(scene)

BuildNext ==
    \/ BuildRoot /\ UNCHANGED <<driverVars, dispatchVars, lightVars, extraVars>>
    \/ BuildNode /\ UNCHANGED <<driverVars, dispatchVars, lightVars, extraVars>>
    \/ BuildTruncate /\ UNCHANGED <<driverVars, dispatchVars, lightVars, extraVars>>

BuildSpecInit == DriverIdle /\ DispatchIdle /\ LightIdle /\ BuildInit /\ ExtraIdle

BuildSpec == BuildSpecInit /\ [][BuildNext]_vars

\* C15: for a scene without triangles the construction of the BVH
\* completes: BVHBuilder::new does not fail on it.
C15_EmptySceneBuilds ==
    indices = <<>> => bvh_pc # "panic"

\* Node indices (0-based) of the built array and who points at them.
NodeIds == 0..(Len(nodes) - 1)

Interior(i) == nodes[i + 1].triangle_count = 0

ParentsOf(i) == {p \in NodeIds : Interior(p) /\ i \in {nodes[p + 1].w, nodes[p + 1].w + 1}}

\* C16: the array build returns for N >= 1 triangles has between 1 and
\* 2N - 1 nodes; index 0 is the root (the only node that is nobody's child);
\* an interior node's children, at payload and payload + 1, are inside the
\* array; a leaf holds at least one triangle, inside the index buffer.
C16_BuiltTreeWellFormed ==
    (bvh_pc = "built" /\ Len(indices) >= 1) =>
        /\ Len(nodes) = node_count
        /\ Len(nodes) >= 1
        /\ Len(nodes) <= 2 * Len(indices) - 1
        /\ ParentsOf(0) = {}
        /\ \A i \in NodeIds \ {0} : Cardinality(ParentsOf(i)) = 1
        /\ \A i \in NodeIds :
              IF Interior(i)
                THEN /\ nodes[i + 1].w >= 1
                     /\ nodes[i + 1].w + 1 <= Len(nodes) - 1
                ELSE /\ nodes[i + 1].triangle_count >= 1
                     /\ nodes[i + 1].w + nodes[i + 1].triangle_count <= Len(indices)

C16_Witness ==
    /\ bvh_pc = "built"
    /\ Len(indices) = 3
    /\ Len(nodes) = 5

\* ---------------------------------------------------- the BVH on a chain
\* DeepTris thin triangles that all span the scene diagonally; triangle k
\* leaves a gap of DeepTris - k + 1 at one side of the box, in y for odd k
\* and in z for even k, so that every split peels one triangle off.
DeepExtent == 4 * DeepTris

DeepTriangle(k) ==
    LET g == DeepTris - k + 1
    IN  IF k % 2 = 1
          THEN <<<<0, 0, DeepExtent>>, <<DeepExtent, DeepExtent - g, 0>>,
                 <<DeepExtent - k, g, DeepExtent \div 2>>>>
          ELSE <<<<0, 0, 0>>, <<DeepExtent, DeepExtent, DeepExtent - g>>,
                 <<DeepExtent - k, 0, DeepExtent \div 2 + g>>>>

DeepScene == [k \in 1..DeepTris |-> DeepTriangle(k)]

DeepInit == BuilderNew(DeepScene)

DeepNext ==
    \/ BuildRoot /\ UNCHANGED <<driverVars, dispatchVars, lightVars, extraVars>>
    \/ BuildNode /\ UNCHANGED <<driverVars, dispatchVars, lightVars, extraVars>>
    \/ BuildTruncate /\ UNCHANGED <<driverVars, dispatchVars, lightVars, extraVars>>
    \/ \E direction \in { <<0, 0, 1>>, <<0, 0, -1>> }, nearest \in BOOLEAN :
            TraceStart(<<1, 1, -1>>, direction, nearest, MaxAnyT)
            /\ UNCHANGED <<driverVars, dispatchVars, lightVars, extraVars>>
    \/ TraceNode /\ UNCHANGED <<driverVars, dispatchVars, lightVars, extraVars>>
    \/ TraceReturn /\ UNCHANGED <<driverVars, dispatchVars, lightVars, extraVars>>

DeepSpecInit == DriverIdle /\ DispatchIdle /\ LightIdle /\ DeepInit /\ ExtraIdle

DeepSpec == DeepSpecInit /\ [][DeepNext]_vars

\* C6: FixedVec::push is never called on a traversal stack that already
\* holds 32 entries.
C6_StackWithinCapacity ==
    /\ Len(stack) <= StackCapacity
    /\ bvh_pc # "overflow"

\* ----------------------------------------------------------- the driver
notDriver == <<dispatchVars, lightVars, bvhVars, extraVars>>

Next ==
    \/ ThreadLoad /\ UNCHANGED notDriver
    \/ ThreadSetup /\ UNCHANGED notDriver
    \/ ThreadSeed /\ UNCHANGED notDriver
    \/ LoopHead /\ UNCHANGED notDriver
    \/ GpuDispatch /\ UNCHANGED notDriver
    \/ GpuFlushCheck /\ UNCHANGED notDriver
    \/ GpuRunningCheck /\ UNCHANGED notDriver
    \/ CpuFlushCheck /\ UNCHANGED notDriver
    \/ CpuLock /\ UNCHANGED notDriver
    \/ CpuTrace /\ UNCHANGED notDriver
    \/ PublishFrame /\ UNCHANGED notDriver
    \/ FlushClear /\ UNCHANGED notDriver
    \/ FlushConfig /\ UNCHANGED notDriver
    \/ FlushRng /\ UNCHANGED notDriver
    \/ UiStart /\ UNCHANGED notDriver
    \/ UiStop /\ UNCHANGED notDriver
    \/ UiJoin /\ UNCHANGED notDriver
    \/ \E loads \in BOOLEAN : UiSetScene(loads) /\ UNCHANGED notDriver
    \/ UiSetSkybox /\ UNCHANGED notDriver
    \/ \E cpu \in BOOLEAN : UiSelectDevice(cpu) /\ UNCHANGED notDriver
    \/ UiEditUnderLock /\ UNCHANGED notDriver
    \/ UiEditThenDirty /\ UNCHANGED notDriver
    \/ UiToggleBlueNoise /\ UNCHANGED notDriver
    \/ UiStoreDirty /\ UNCHANGED notDriver
    \/ \E down \in BOOLEAN : UiInputButton(down) /\ UNCHANGED notDriver
    \/ \E moved \in BOOLEAN : UiInputWrite(moved) /\ UNCHANGED notDriver
    \/ \E rate \in 1..MaxSyncRate : UiSetSyncRate(rate) /\ UNCHANGED notDriver

Init == DriverInit /\ DispatchIdle /\ LightIdle /\ BvhIdle /\ ExtraIdle

Spec == Init /\ [][Next]_vars

\* The renderer thread is an OS thread that is always eventually scheduled
\* and whose blocking device poll returns; join returns once it has returned.
FairSpec ==
    /\ Spec
    /\ WF_vars(Renderer /\ UNCHANGED notDriver)
    /\ WF_vars(UiJoin /\ UNCHANGED notDriver)

\* ------------------------------------------------------ driver properties
InBatch == rpc \in {"g_dispatch", "g_flush", "g_running"}
AtTickStart == rpc \in {"seed", "head", "c_flush", "c_lock", "c_trace"}
Joining == ui_pc \in {"join_stop", "join_restart"}
EndOfFlushTick == rpc = "head" /\ flush

\* C1: a published framebuffer never averages samples traced under two
\* configs, and none of its samples is older than the shared config was
\* when the publishing tick started.
C1_PublishedUnderOneNewConfig ==
    framebuffer.div > 0 =>
        /\ Cardinality(framebuffer.cfgs) <= 1
        /\ \A c \in framebuffer.cfgs : c >= framebuffer.tick

C3_StopTerminates ==
    /\ [](finished_after_stop <= 1)
    /\ ((~running /\ compute_join_handle = "some") ~> rpc = "done")
    /\ (Joining ~> ui_pc = "idle")

C3_Witness ==
    /\ ~running
    /\ rpc = "done"
    /\ ui_pc = "join_stop"
    /\ finished_after_stop = 1
    /\ flush

\* C8: when a render is cancelled to be restarted with continue_previous =
\* true, what the restart restores (framebuffer x samples) holds every sample
\* the cancelled run had accumulated.
C8_RestartKeepsFinishedSamples ==
    (rpc = "done" /\ ui_pc = "join_restart" /\ continue_previous) =>
        RestoreOutput(framebuffer, samples).n >= output_buffer.n

\* C9: at the end of a tick that observed flush the accumulator is zero,
\* samples is 0 and the RNG cells the next sample reads are the initial
\* seeds of the selected mode.
C9_FlushResetsState ==
    EndOfFlushTick =>
        /\ output_buffer.n = 0
        /\ samples = 0
        /\ IF on_cpu THEN ~rng_data_advanced[rng_selected]
                     ELSE ~rng_buffer_advanced

\* C10: a UI step that changes the shared config while a render thread is
\* alive stores dirty in the same handler (with the write or right after
\* it), or is made while interacting is true, or restarts the render.
C10_ConfigWriteRaisesFlush ==
    [][(config' # config /\ RenderAlive) =>
          \/ dirty'
          \/ interacting
          \/ ui_pc' = "store_dirty"
          \/ ui_pc' = "join_restart"]_vars

\* ------------------------------------------------ harness properties
HarnessSpecInit ==
    /\ DriverIdle /\ DispatchIdle /\ LightIdle /\ BvhIdle /\ HarnessInit /\ PathIdle
    /\ direct_sample = DefaultDirectSample
    /\ KernelIdle

HarnessSpec == HarnessSpecInit /\ [][HarnessNext]_vars

\* C12: two runs of the same back-end with the same config, seeds, scene and
\* sample target that have both ended hold the same final framebuffer,
\* however the watcher was scheduled against the renderer's ticks.
C12_SameFinalFramebuffer ==
    (h_rpc[1] = "done" /\ h_rpc[2] = "done") =>
        h_framebuffer[1] = h_framebuffer[2]

\* The renderer of a run: every step of the trace function.
HarnessRenderer(r) ==
    \/ HarnessLoad(r)
    \/ HarnessLoopHead(r)
    \/ HarnessCpuTrace(r)
    \/ HarnessGpuDispatch(r)
    \/ HarnessGpuRunningCheck(r)
    \/ HarnessPublish(r)

\* Both threads of a run are scheduled again and again: the watcher yields
\* in its loop and the renderer is the calling thread.
FairHarnessSpec ==
    /\ HarnessSpecInit
    /\ [][HarnessNext]_vars
    /\ \A r \in Runs : WF_vars(HarnessRenderer(r) /\ UNCHANGED notHarness)
    /\ \A r \in Runs : WF_vars(WatcherStop(r) /\ UNCHANGED notHarness)

\* At return the target is reached and the framebuffer is the accumulator
\* of exactly `samples` samples divided by `samples`.
ReturnedWithTarget(r) ==
    /\ h_samples[r] >= h_target
    /\ h_framebuffer[r] = [n |-> h_samples[r], div |-> h_samples[r]]

\* C22 as stated: for a target n >= 1 and no UI interaction, the trace
\* function eventually returns, and at return samples >= n and the
\* published framebuffer holds exactly the samples counted in `samples`,
\* divided by `samples`.
C22_HarnessRunReachesTarget ==
    /\ (h_target >= 1) => \A r \in Runs : <>(h_rpc[r] = "done")
    /\ [](\A r \in Runs :
            (h_target >= 1 /\ h_rpc[r] = "done") => ReturnedWithTarget(r))

\* C22, for a scene that loads: for a target n >= 1, a scene file that
\* World::from_path loads and no UI interaction, the trace function
\* eventually returns, and at return samples >= n and the published
\* framebuffer holds exactly the samples counted in `samples`, divided by
\* `samples`.
C22_LoadedRunReachesTarget ==
    /\ (h_target >= 1) => \A r \in Runs : <>(h_rpc[r] = "done")
    /\ [](\A r \in Runs :
            (h_target >= 1 /\ h_scene_loads /\ h_rpc[r] = "done")
                => ReturnedWithTarget(r))

C22_Witness ==
    /\ h_scene_loads
    /\ ~h_cpu
    /\ h_target >= 1
    /\ h_rpc[1] = "done"
    /\ h_samples[1] > h_target
    /\ h_output_buffer[1] > h_samples[1]
    /\ h_framebuffer[1].div = h_samples[1]

\* --------------------------------------------- per-pixel properties
PathSpecInit ==
    /\ DriverIdle /\ DispatchIdle /\ LightIdle /\ BvhIdle /\ HarnessIdle /\ PathInit
    /\ direct_sample = DefaultDirectSample
    /\ KernelIdle

PathSpec == PathSpecInit /\ [][PathNext]_vars

EmissiveFront == event.hit /\ event.emissive /\ ~event.backface

\* C13: every hit on a front-facing emissive triangle ends the path, in all
\* three NEE modes; with DirectLightSampling, at bounce > 0 after a diffuse
\* bounce, it ends it with nothing added, no BSDF sample and no NEE.
C13_EmissiveHitEndsPath ==
    EmissiveFront =>
        /\ event.ended
        /\ (nee_mode = "DirectLightSampling" /\ event.bounce > 0
              /\ event.prev_lobe = "DiffuseReflection") =>
                 (event.term = "none" /\ ~event.sampled_bsdf /\ ~event.did_nee)

\* C14: whatever is added to the pixel's accumulator cell is finite, and so
\* is every radiance term of the bounce loop at the point it is added.
C14_AccumulatedFinite ==
    /\ is_finite3(event.added)
    /\ path_pc = "done" => is_finite3(output_added)

\* C20: a hit on the back face of an emissive triangle ends the path and
\* adds nothing to radiance, in every NEE mode; at bounce 0 the sample's
\* radiance is zero.
C20_BackfaceEmissiveAddsNothing ==
    (event.hit /\ event.emissive /\ event.backface) =>
        /\ event.ended
        /\ event.term = "none"
        /\ ~event.sampled_bsdf
        /\ path_pc \in {"write", "done"}
        /\ event.bounce = 0 => radiance = "zero"
        /\ (event.bounce = 0 /\ path_pc = "done") => output_added = "zero"

C20_Witness ==
    /\ event.hit /\ event.emissive /\ event.backface
    /\ event.bounce = 0
    /\ nee_mode = "DirectLightSampling"
    /\ path_pc = "done"

TickSamples == IF on_cpu THEN 1 ELSE tick_sync_rate

C17_FailedLoadLeavesSharedState ==
    [][(rpc = "load" /\ ~scene_loads /\ rpc' # rpc) =>
          (rpc' = "done" /\ UNCHANGED sharedVars)]_vars

C17_Witness ==
    /\ rpc = "done"
    /\ ~scene_loads
    /\ compute_join_handle = "some"
    /\ running
    /\ framebuffer = EmptyFramebuffer
    /\ samples = 0

\* C18: a renderer that has returned does not leave running = true behind,
\* so the shell can tell a failed scene load from a render that was stopped.
C18_FailureVisibleToShell ==
    (compute_join_handle = "some" /\ rpc = "done") => ~running

\* ------------------------------------------------------- the MIS weight
\* a / b on f32 for non-negative integers a and b, as <<class, a, b>>:
\* 0.0 / 0.0 is NaN and x / 0.0 is +inf.
FQuot(a, b) ==
    IF b = 0 THEN (IF a = 0 THEN NaN ELSE PosInf) ELSE <<1, a, b>>

\* util::power_heuristic: p1_2 / (p1_2 + p2 * p2)
power_heuristic(a, b) ==
    LET p1_2 == a * a
    IN  FQuot(p1_2, p1_2 + b * b)

\* light_pick::get_weight
get_weight(mode, a, b) ==
    IF mode = "MultipleImportanceSampling" THEN power_heuristic(a, b)
    ELSE <<1, 1, 1>>

WeightInit ==
    /\ weight_nee_mode \in NeeModes
    /\ p1 \in 0..MaxPdf
    /\ p2 \in 0..MaxPdf
    /\ weight = "none"

GetWeight ==
    /\ weight = "none"
    /\ weight' = get_weight(weight_nee_mode, p1, p2)
    /\ UNCHANGED <<weight_nee_mode, p1, p2>>

notKernel == <<driverVars, dispatchVars, lightVars, bvhVars, harnessVars, pathVars,
    direct_sample>>

WeightNext ==
    \/ GetWeight /\ UNCHANGED <<notKernel, modesVars, lateVars>>

WeightSpecInit ==
    /\ DriverIdle /\ DispatchIdle /\ LightIdle /\ BvhIdle /\ HarnessIdle /\ PathIdle
    /\ direct_sample = DefaultDirectSample
    /\ WeightInit
    /\ ModesIdle
    /\ LateIdle

WeightSpec == WeightSpecInit /\ [][WeightNext]_vars

\* C21: power_heuristic(0, 0), reached through get_weight in the
\* MultipleImportanceSampling mode, returns the finite value 0.
C21_ZeroPdfsGiveZeroWeight ==
    (weight # "none" /\ weight_nee_mode = "MultipleImportanceSampling"
        /\ p1 = 0 /\ p2 = 0) =>
        (weight[1] = 1 /\ weight[2] = 0)

\* ------------------------------ one pixel under the three NEE modes
\* main_material (kernels/src/lib.rs:288-454) run once per NEE mode on the
\* same pixel, scene, RNG state and config (but for `nee`).  Every copy is
\* handed the same trace results, BSDF samples and random numbers as long
\* as it asks the same questions; a product whose class the operands' classes
\* leave open (inf * fin is inf or NaN) is resolved by `pick`.
VMul3As(a, b, pick) ==
    IF pick \in VMul3(a, b) THEN pick ELSE CHOOSE c \in VMul3(a, b) : TRUE

\* After rng_state.gen_r2() for the pixel jitter (lib.rs:311-314).
StartPath ==
    [pc |-> "loop", bounce |-> 0, throughput |-> "fin", radiance |-> "zero",
     last_lobe |-> "DiffuseReflection", dimension |-> 2, nee_calls |-> 0,
     nee_draws |-> 0, nee_added |-> "zero", emissive_branch |-> FALSE]

\* What build_light_pick_table returns for the scene: the sentinel entry
\* when no triangle is emissive (src/light_pick.rs:53-59).
SceneLightPickBuffer(lights) ==
    IF lights
      THEN <<[triangle_index_a |-> 0, triangle_index_b |-> 0, ratio |-> <<1, 1>>]>>
      ELSE <<[triangle_index_a |-> 0, triangle_index_b |-> 0, ratio |-> <<-1, 1>>]>>

\* Variant of sample_direct_lighting without the sentinel test.
DirectLightingUnchecked(lights, contribution) ==
    [picked |-> TRUE, rng_draws |-> 4, shadow_rays |-> 1,
     direct_light_contribution |-> contribution]

\* sample_direct_lighting on the scene's table
DirectLightingIn(lights, contribution) ==
    IF is_sentinel(SceneLightPickBuffer(lights)[1])
      THEN DefaultDirectSample
      ELSE [picked |-> TRUE, rng_draws |-> 4, shadow_rays |-> 1,
            direct_light_contribution |-> contribution]

\* The rest of an iteration (lib.rs:376-446): bsdf.sample draws 3 numbers,
\* sample_direct_lighting what its sample says, Russian roulette 1.
BounceStep(mode, st, env) ==
    LET nee_now == uses_nee(mode) /\ env.lobe = "DiffuseReflection"
        sample == IF nee_now THEN DirectLightingIn(m_lights, env.light)
                  ELSE DefaultDirectSample
        direct == mask_nan(sample.direct_light_contribution)
        attenuated == VMul3As(st.throughput, env.attenuation, env.pick)
        roulette == st.bounce > m_min_bounces
        breaks == roulette /\ ~env.survives /\ CanBreak(attenuated)
    IN  [st EXCEPT
            !.radiance = IF nee_now THEN VAdd3(@, direct) ELSE @,
            !.last_lobe = env.lobe,
            !.throughput = IF roulette /\ ~breaks THEN Reweighted(attenuated)
                           ELSE attenuated,
            !.dimension = @ + 3 + sample.rng_draws + (IF roulette THEN 1 ELSE 0),
            !.nee_calls = @ + (IF nee_now THEN 1 ELSE 0),
            !.nee_draws = @ + sample.rng_draws,
            !.nee_added = IF nee_now THEN VAdd3(@, direct) ELSE @,
            !.bounce = IF breaks THEN @ ELSE @ + 1,
            !.pc = IF breaks THEN "done" ELSE "loop"]

\* One iteration of the bounce loop (lib.rs:337-446) in one mode.
TracePixelStep(mode, st, env) ==
    IF st.pc # "loop" THEN st
    ELSE IF st.bounce >= m_max_bounces THEN [st EXCEPT !.pc = "done"]
    ELSE IF ~env.hit
      THEN [st EXCEPT !.radiance = VAdd3(@, VMul3As(st.throughput, env.sky, env.pick)),
                      !.pc = "done"]
    ELSE IF env.emissive /\ env.backface
      THEN [st EXCEPT !.pc = "done", !.emissive_branch = TRUE]
    ELSE IF env.emissive /\ (\/ ~uses_nee(mode)
                             \/ st.bounce = 0
                             \/ st.last_lobe # "DiffuseReflection")
      THEN [st EXCEPT !.radiance =
                          VAdd3(@, mask_nan(VMul3As(st.throughput, "fin", env.pick))),
                      !.pc = "done", !.emissive_branch = TRUE]
    ELSE IF env.emissive /\ uses_mis(mode) /\ st.last_lobe = "DiffuseReflection"
      THEN [st EXCEPT !.radiance = VAdd3(@, mask_nan(env.mis)),
                      !.pc = "done", !.emissive_branch = TRUE]
    ELSE BounceStep(mode, st, env)

ModesInit ==
    /\ m_lights \in BOOLEAN
    /\ m_max_bounces \in 0..ModeBounces
    /\ m_min_bounces \in 0..ModeBounces
    /\ m_path = [m \in NeeModes |-> StartPath]

NoSurface ==
    [emissive |-> FALSE, backface |-> FALSE, mis |-> "zero",
     lobe |-> "DiffuseReflection", light |-> "zero", attenuation |-> "fin",
     survives |-> TRUE]

\* What one iteration is handed: the trace result, the sky's radiance on a
\* miss, and at a hit the surface's answers.
IterationInput(hit, sky, surface, pick) ==
    [hit |-> hit, sky |-> sky, pick |-> pick, emissive |-> surface.emissive,
     backface |-> surface.backface, mis |-> surface.mis, lobe |-> surface.lobe,
     light |-> surface.light, attenuation |-> surface.attenuation,
     survives |-> surface.survives]

\* The ray of this iteration leaves the scene.
ModesMiss(sky, pick) ==
    /\ \E m \in NeeModes : m_path[m].pc = "loop"
    /\ m_path' = [m \in NeeModes |->
                    TracePixelStep(m, m_path[m],
                        IterationInput(FALSE, sky, NoSurface, pick))]
    /\ UNCHANGED <<m_lights, m_max_bounces, m_min_bounces>>

\* The ray of this iteration hits a triangle; only a scene with an emissive
\* triangle has emissive hits.
ModesHit(surface, pick) ==
    /\ \E m \in NeeModes : m_path[m].pc = "loop"
    /\ surface.emissive => m_lights
    /\ m_path' = [m \in NeeModes |->
                    TracePixelStep(m, m_path[m],
                        IterationInput(TRUE, "zero", surface, pick))]
    /\ UNCHANGED <<m_lights, m_max_bounces, m_min_bounces>>

Surfaces ==
    [emissive : BOOLEAN, backface : BOOLEAN, mis : {"zero", "fin", "nan"},
     lobe : Lobes, light : {"zero", "fin", "nan"}, attenuation : FloatClass,
     survives : BOOLEAN]

ModesNext ==
    \/ \E sky \in {"zero", "fin"}, pick \in {"inf", "nan"} :
          ModesMiss(sky, pick) /\ UNCHANGED <<notKernel, weightVars, lateVars>>
    \/ \E surface \in Surfaces, pick \in {"inf", "nan"} :
          ModesHit(surface, pick) /\ UNCHANGED <<notKernel, weightVars, lateVars>>

ModesSpecInit ==
    /\ DriverIdle /\ DispatchIdle /\ LightIdle /\ BvhIdle /\ HarnessIdle /\ PathIdle
    /\ direct_sample = DefaultDirectSample
    /\ WeightIdle
    /\ ModesInit
    /\ LateIdle

ModesSpec == ModesSpecInit /\ [][ModesNext]_vars

AllReturned == \A m \in NeeModes : m_path[m].pc = "done"

\* C23: in a scene without an emissive triangle the three NEE modes return
\* the same radiance and have drawn the same random numbers; NEE has added
\* nothing and drawn nothing, and no emissive-hit branch was taken.
C23_ModesAgreeWithoutLights ==
    (~m_lights /\ AllReturned) =>
        /\ \A a, b \in NeeModes :
              /\ m_path[a].radiance = m_path[b].radiance
              /\ m_path[a].dimension = m_path[b].dimension
        /\ \A m \in NeeModes :
              /\ m_path[m].nee_draws = 0
              /\ m_path[m].nee_added = "zero"
              /\ ~m_path[m].emissive_branch

C23_Witness ==
    /\ ~m_lights
    /\ AllReturned
    /\ m_path["MultipleImportanceSampling"].nee_calls = 1
    /\ m_path["DirectLightSampling"].nee_calls = 1
    /\ m_path["None"].nee_calls = 0
    /\ m_path["None"].radiance = "fin"
    /\ m_path["None"].dimension = 5

\* ------------------------------------- the BVH build in f32 arithmetic
\* The build above keeps centroids and split planes exact.  Here they are
\* f32 values.  The scene lies where one ulp is one unit, in [2^23, 2^24):
\* triangle k is (x, 0, 0), (x, 1, 0), (x, 0, 1) with x = FarOrigin + an
\* offset, so every f32 the builder computes on the x axis is an integer
\* or a quotient of small integers, and the y and z centroids are the same
\* f32 for every triangle.
FarOrigin == 2^23

FarTriangle(offset) ==
    <<<<FarOrigin + offset, 0, 0>>, <<FarOrigin + offset, 1, 0>>,
      <<FarOrigin + offset, 0, 1>>>>

\* num / den rounded to the nearest integer, ties to even.
RoundHalfEven(num, den) ==
    LET q == num \div den
        r == num % den
    IN  IF 2 * r < den THEN q
        ELSE IF 2 * r > den THEN q + 1
        ELSE IF q % 2 = 0 THEN q ELSE q + 1

\* The spacing of f32 values at n >= 0: 1 below 2^24, doubling per binade.
RECURSIVE Ulp(_)
Ulp(n) == IF n < 2^24 THEN 1 ELSE 2 * Ulp(n \div 2)

\* The f32 nearest to the integer n (a 24-bit significand).
F32OfInt(n) == Ulp(n) * RoundHalfEven(n, Ulp(n))

\* The f32 nearest to num / den, as [n, p] for n / 2^p with n >= 2^23.
RECURSIVE F32Quot(_, _, _)
F32Quot(num, den, p) ==
    IF num \div den >= 2^23 THEN [n |-> RoundHalfEven(num, den), p |-> p]
    ELSE F32Quot(2 * num, den, p + 1)

\* (v0 + v1 + v2) / 3.0 on the x axis (bvh.rs:63-66): two rounded sums and
\* a rounded quotient, which lies where one ulp is 1.
centroid_x(tri) ==
    RoundHalfEven(F32OfInt(F32OfInt(tri[1][1] + tri[2][1]) + tri[3][1]), 3)

\* (((centroid - bounds_min) * scale) as usize).min(sah_samples - 1) with
\* scale = sah_samples as f32 / (bounds_max - bounds_min): the differences
\* are exact, the quotient and the product are rounded, `as` truncates.
far_segment_index(centroid, bounds_min, bounds_max) ==
    LET scale == F32Quot(sah_samples, bounds_max - bounds_min, 0)
    IN  Min2(F32OfInt((centroid - bounds_min) * scale.n) \div (2^scale.p),
             sah_samples - 1)

\* "build segments and fill them with triangles", triangles lo .. hi
RECURSIVE FarFillSegments(_, _, _, _, _, _, _)
FarFillSegments(segments, buffer, cents, lo, hi, bounds_min, bounds_max) ==
    IF lo > hi THEN segments
    ELSE LET k == far_segment_index(cents[lo], bounds_min, bounds_max)
             filled == [segments EXCEPT ![k + 1] =
                          [aabb |-> encapsulate_node(segments[k + 1].aabb,
                                                     TriangleBox(buffer[lo])),
                           triangle_count |->
                               segments[k + 1].triangle_count + 1]]
         IN  Then(filled, LAMBDA f :
                  FarFillSegments(f, buffer, cents, lo + 1, hi,
                                  bounds_min, bounds_max))

\* find_best_split_segmented on f32 centroids.  The turns for y and z
\* `continue`: bounds_min == bounds_max there.  On x the costs are sums of
\* small integers, exact in f32, and
\* best_split = bounds_min + scale * (i + 1) as f32 with
\* scale = (bounds_max - bounds_min) / 128: the quotient and the product
\* are exact, the sum is rounded to the f32 grid.
far_find_best_split(buffer, cents, node) ==
    LET none == [axis |-> 1, split |-> 0, cost |-> PosInf]
        first == first_triangle_index(node)
        count == node.triangle_count
        cs == {cents[j] : j \in (first + 1)..(first + count)}
        bounds_min == CHOOSE m \in cs : \A c \in cs : m <= c
        bounds_max == CHOOSE m \in cs : \A c \in cs : m >= c
        segments == FarFillSegments([k \in 1..sah_samples |-> EmptySegment],
                                    buffer, cents, first + 1, first + count,
                                    bounds_min, bounds_max)
        lefts == SweepLeft(segments, 0, sah_samples - 2, EmptySegment).out
        rights == SweepRight(segments, 0, sah_samples - 2, EmptySegment).out
        exact == PickSplit(lefts, rights, 0, sah_samples - 2, 1,
                           bounds_min, bounds_max, none)
    IN  IF bounds_min = bounds_max THEN none
        ELSE [exact EXCEPT !.split = RoundHalfEven(exact.split, sah_samples)]

\* BVHBuilder::new and build up to its loop (bvh.rs:59-78, 256-264).
FarInit ==
    /\ \E n \in 1..FarTris :
         far_input \in [1..n -> {FarTriangle(o) : o \in 0..MaxOffset}]
    /\ far_indices = far_input
    /\ far_centroids = [i \in DOMAIN far_input |-> centroid_x(far_input[i])]
    /\ far_nodes = [DefaultNodes(2 * Len(far_input) - 1) EXCEPT ![1] =
                      update_node_aabb([DefaultNode EXCEPT !.w = 0,
                                          !.triangle_count = Len(far_input)],
                                       far_input)]
    /\ far_node_count = 1
    /\ far_stack = <<0>>
    /\ far_pc = "pop"
    /\ far_node_idx = 0
    /\ far_split = 0
    /\ far_a = 0
    /\ far_b = 0

\* One turn of build's loop up to "partition the triangles": pop, find the
\* best split, `continue` if parent_cost <= best_cost, else set a and b.
FarPop ==
    /\ far_pc = "pop"
    /\ far_stack # <<>>
    /\ LET node_idx == far_stack[Len(far_stack)]
           node == far_nodes[node_idx + 1]
           best == far_find_best_split(far_indices, far_centroids, node)
           parent_cost == CountTimesArea(node.triangle_count,
                                         area(NodeBox(node)))
       IN  /\ far_stack' = SubSeq(far_stack, 1, Len(far_stack) - 1)
           /\ IF ~IsNaN(parent_cost) /\ ~IsNaN(best.cost)
                 /\ ~FLess(best.cost, parent_cost)
                THEN UNCHANGED <<far_pc, far_node_idx, far_split, far_a, far_b>>
                ELSE /\ far_pc' = "partition"
                     /\ far_node_idx' = node_idx
                     /\ far_split' = best.split
                     /\ far_a' = first_triangle_index(node)
                     /\ far_b' = first_triangle_index(node)
                                 + node.triangle_count - 1
    /\ UNCHANGED <<far_input, far_indices, far_centroids, far_nodes,
                   far_node_count>>

\* One turn of "while a <= b" (bvh.rs:282-291).  a and b are u32: b -= 1
\* at b = 0 panics with overflow checks; without them b wraps to u32::MAX
\* and the loop goes on to index centroids outside its length, a panic too.
FarPartitionStep ==
    /\ far_pc = "partition"
    /\ far_a <= far_b
    /\ IF far_centroids[far_a + 1] < far_split
         THEN /\ far_a' = far_a + 1
              /\ UNCHANGED <<far_indices, far_centroids, far_b, far_pc>>
         ELSE /\ far_indices' = SwapAt(far_indices, far_a + 1, far_b + 1)
              /\ far_centroids' = SwapAt(far_centroids, far_a + 1, far_b + 1)
              /\ IF far_b = 0
                   THEN far_pc' = "panic" /\ UNCHANGED far_b
                   ELSE far_b' = far_b - 1 /\ UNCHANGED far_pc
              /\ UNCHANGED far_a
    /\ UNCHANGED <<far_input, far_nodes, far_node_count, far_stack,
                   far_node_idx, far_split>>

\* After the loop: `continue` if either side is empty, else create the
\* children and push them (bvh.rs:293-317).
FarChildren ==
    /\ far_pc = "partition"
    /\ far_a > far_b
    /\ LET node == far_nodes[far_node_idx + 1]
           prev_triangle_idx == first_triangle_index(node)
           left_count == far_a - prev_triangle_idx
           left_idx == far_node_count
           right_idx == far_node_count + 1
       IN  IF left_count = 0 \/ left_count = node.triangle_count
             THEN UNCHANGED <<far_nodes, far_node_count, far_stack>>
             ELSE /\ far_node_count' = far_node_count + 2
                  /\ far_nodes' = [far_nodes EXCEPT
                        ![far_node_idx + 1] = [node EXCEPT !.w = left_idx,
                                                 !.triangle_count = 0],
                        ![left_idx + 1] =
                            update_node_aabb(
                                [DefaultNode EXCEPT !.w = prev_triangle_idx,
                                   !.triangle_count = left_count],
                                far_indices),
                        ![right_idx + 1] =
                            update_node_aabb(
                                [DefaultNode EXCEPT !.w = far_a,
                                   !.triangle_count =
                                       node.triangle_count - left_count],
                                far_indices)]
                  /\ far_stack' = far_stack \o <<right_idx, left_idx>>
    /\ far_pc' = "pop"
    /\ UNCHANGED <<far_input, far_indices, far_centroids, far_node_idx,
                   far_split, far_a, far_b>>

\* self.nodes.truncate(node_count)
FarTruncate ==
    /\ far_pc = "pop"
    /\ far_stack = <<>>
    /\ far_nodes' = SubSeq(far_nodes, 1, far_node_count)
    /\ far_pc' = "built"
    /\ UNCHANGED <<far_input, far_indices, far_centroids, far_node_count,
                   far_stack, far_node_idx, far_split, far_a, far_b>>

notFar == <<notKernel, weightVars, modesVars, rngVars, lockVars, worldVars>>

FarNext ==
    \/ FarPop /\ UNCHANGED notFar
    \/ FarPartitionStep /\ UNCHANGED notFar
    \/ FarChildren /\ UNCHANGED notFar
    \/ FarTruncate /\ UNCHANGED notFar

FarSpecInit ==
    /\ DriverIdle /\ DispatchIdle /\ LightIdle /\ BvhIdle /\ HarnessIdle /\ PathIdle
    /\ direct_sample = DefaultDirectSample
    /\ WeightIdle
    /\ ModesIdle
    /\ FarInit
    /\ RngIdle
    /\ LocksIdle
    /\ WorldIdle

FarSpec == FarSpecInit /\ [][FarNext]_vars

Occurrences(seq, x) == Cardinality({i \in DOMAIN seq : seq[i] = x})

FarLeaves == {i \in DOMAIN far_nodes : is_leaf(far_nodes[i])}

FarLeafRange(i) ==
    first_triangle_index(far_nodes[i])
        .. (first_triangle_index(far_nodes[i]) + far_nodes[i].triangle_count - 1)

\* C25: the build never moves b below 0; between steps indices is a
\* permutation of the input with centroids[i] the centroid of indices[i];
\* after build every triangle position lies in exactly one leaf's range.
C25_BuildPartitionsInRange ==
    /\ far_pc # "panic"
    /\ far_pc # "none" =>
         /\ \A i \in DOMAIN far_input :
              Occurrences(far_indices, far_input[i])
                  = Occurrences(far_input, far_input[i])
         /\ Len(far_indices) = Len(far_input)
         /\ \A i \in DOMAIN far_indices :
              far_centroids[i] = centroid_x(far_indices[i])
    /\ far_pc = "built" =>
         \A t \in 0..(Len(far_input) - 1) :
              Cardinality({i \in FarLeaves : t \in FarLeafRange(i)}) = 1

\* The parts of C25 other than the bound on b.
FarBuildKeepsTriangles ==
    /\ far_pc # "none" =>
         /\ \A i \in DOMAIN far_input :
              Occurrences(far_indices, far_input[i])
                  = Occurrences(far_input, far_input[i])
         /\ \A i \in DOMAIN far_indices :
              far_centroids[i] = centroid_x(far_indices[i])
    /\ far_pc = "built" =>
         \A t \in 0..(Len(far_input) - 1) :
              Cardinality({i \in FarLeaves : t \in FarLeafRange(i)}) = 1

\* ------------------------------------------- the RNG dimension of a pixel
\* RngState::new sets dimension = 0; gen_r1 increments it and then reads
\* LDS_PRIMES[dimension] (rng.rs:51-54), gen_r2 and gen_r3 are two and
\* three calls of gen_r1.  n calls in a row: when one of them reads at
\* LDS_MAX_DIMENSIONS or above, the index is outside the table (a panic on
\* the CPU, an undefined read in the shader) and the model stops there.
gen(n, next_pc) ==
    IF dimension + n < LDS_MAX_DIMENSIONS
      THEN dimension' = dimension + n /\ rng_pc' = next_pc
      ELSE dimension' = LDS_MAX_DIMENSIONS /\ rng_pc' = "out_of_bounds"

\* main_material up to RngState::new(rng[index]); the settings panel keeps
\* min_bounces <= max_bounces (app.rs:263-275) and bounds neither.
RngInit ==
    /\ dimension = 0
    /\ rng_pc = "jitter"
    /\ rng_nee \in NeeModes
    /\ rng_max_bounces \in 0..DrawBounces
    /\ rng_min_bounces \in 0..rng_max_bounces
    /\ rng_lights \in BOOLEAN
    /\ rng_bounce = 0
    /\ rng_lobe = "DiffuseReflection"

\* "Get anti-aliased pixel coordinates": rng_state.gen_r2()
Jitter ==
    /\ rng_pc = "jitter"
    /\ gen(2, "loop")
    /\ UNCHANGED <<rng_nee, rng_max_bounces, rng_min_bounces, rng_lights,
                   rng_bounce, rng_lobe>>

\* for bounce in 0..config.max_bounces: the range is used up.
BouncesUsedUp ==
    /\ rng_pc = "loop"
    /\ rng_bounce >= rng_max_bounces
    /\ rng_pc' = "done"
    /\ UNCHANGED <<dimension, rng_nee, rng_max_bounces, rng_min_bounces,
                   rng_lights, rng_bounce, rng_lobe>>

\* The ray misses, or it hits an emissive triangle and one of the three
\* `break`s of "Add emission" is taken (which needs a light in the scene).
PathBreaks(miss) ==
    /\ rng_pc = "loop"
    /\ rng_bounce < rng_max_bounces
    /\ miss \/ rng_lights
    /\ rng_pc' = "done"
    /\ UNCHANGED <<dimension, rng_nee, rng_max_bounces, rng_min_bounces,
                   rng_lights, rng_bounce, rng_lobe>>

\* The ray hits a surface the path goes on from: bsdf.sample draws
\* rng.gen_r3() and returns one of the two lobes (bsdf.rs:272-330).
BsdfSample(lobe) ==
    /\ rng_pc = "loop"
    /\ rng_bounce < rng_max_bounces
    /\ gen(3, "nee")
    /\ rng_lobe' = lobe
    /\ UNCHANGED <<rng_nee, rng_max_bounces, rng_min_bounces, rng_lights,
                   rng_bounce>>

\* "Sample lights directly": sample_direct_lighting returns before it
\* draws when the table is the sentinel; else pick_light and
\* pick_triangle_point draw gen_r2 each.
SampleLights ==
    /\ rng_pc = "nee"
    /\ IF /\ uses_nee(rng_nee)
          /\ rng_lobe = "DiffuseReflection"
          /\ ~is_sentinel(SceneLightPickBuffer(rng_lights)[1])
         THEN gen(4, "roulette")
         ELSE rng_pc' = "roulette" /\ UNCHANGED dimension
    /\ UNCHANGED <<rng_nee, rng_max_bounces, rng_min_bounces, rng_lights,
                   rng_bounce, rng_lobe>>

\* "Russian roulette": if bounce > config.min_bounces, gen_r1 and break or
\* go on; then the next bounce.
Roulette(survives) ==
    /\ rng_pc = "roulette"
    /\ IF rng_bounce > rng_min_bounces
         THEN /\ gen(1, IF survives THEN "loop" ELSE "done")
              /\ rng_bounce' = IF survives THEN rng_bounce + 1 ELSE rng_bounce
         ELSE /\ survives
              /\ rng_pc' = "loop"
              /\ rng_bounce' = rng_bounce + 1
              /\ UNCHANGED dimension
    /\ UNCHANGED <<rng_nee, rng_max_bounces, rng_min_bounces, rng_lights,
                   rng_lobe>>

notRng == <<notKernel, weightVars, modesVars, farVars, lockVars, worldVars>>

RngNext ==
    \/ Jitter /\ UNCHANGED notRng
    \/ BouncesUsedUp /\ UNCHANGED notRng
    \/ \E miss \in BOOLEAN : PathBreaks(miss) /\ UNCHANGED notRng
    \/ \E lobe \in {"DiffuseReflection", "SpecularReflection"} :
          BsdfSample(lobe) /\ UNCHANGED notRng
    \/ SampleLights /\ UNCHANGED notRng
    \/ \E survives \in BOOLEAN : Roulette(survives) /\ UNCHANGED notRng

RngSpecInit ==
    /\ DriverIdle /\ DispatchIdle /\ LightIdle /\ BvhIdle /\ HarnessIdle /\ PathIdle
    /\ direct_sample = DefaultDirectSample
    /\ WeightIdle
    /\ ModesIdle
    /\ FarIdle
    /\ RngInit
    /\ LocksIdle
    /\ WorldIdle

RngSpec == RngSpecInit /\ [][RngNext]_vars

\* C26: every random-number request of a sample reads LDS_PRIMES at a
\* valid index: dimension never reaches LDS_MAX_DIMENSIONS.
C26_DimensionStaysInTable == dimension < LDS_MAX_DIMENSIONS

\* With the default bounce counts (min_bounces = 3, max_bounces = 4) the
\* dimension stays at or below 2 + 4 * (3 + 4) = 30.
DefaultBouncesStayInTable ==
    (rng_max_bounces <= 4 /\ rng_min_bounces >= 3) => dimension <= 30

\* ------------------------------------- threads, locks and the join
\* The UI thread (thread 0) and the renderer threads (1, 2, ... in the
\* order of their spawn) with TracingState's config and framebuffer
\* RwLocks.  What a thread still has to run is a sequence of steps:
\*   <<"read", l>>, <<"write", l>>   l.read() / l.write(): blocks
\*   <<"drop", l>>                   the guard on l goes out of scope
\*   <<"store_running", v>>, <<"store_samples">>, <<"join">>, <<"spawn">>
\*   <<"stop_if_handle">>, <<"restart", continue_previous>>
\*   <<"load">>, <<"loop">>, <<"dispatch", flush>>, <<"trace">>
UiThread == 0
NoHolder == 0 - 1

Unlocked == [w |-> NoHolder, r |-> {}]

guard(mode, l) == <<<<mode, l>>, <<"drop", l>>>>

\* App::stop_render (app.rs:167-175)
stop_render == <<<<"store_running", FALSE>>, <<"join">>>>

\* Variant of start_render without the stop_render of its first lines.
start_render_no_join(cont) ==
    (IF cont THEN <<>>
     ELSE guard("read", "config") \o guard("write", "config")
          \o guard("write", "framebuffer") \o <<<<"store_samples">>>>)
    \o <<<<"store_running", TRUE>>, <<"spawn">>>>

\* App::start_render (app.rs:134-165)
start_render(cont) ==
    <<<<"stop_if_handle">>>>
    \o (IF cont THEN <<>>
        ELSE guard("read", "config") \o guard("write", "config")
             \o guard("write", "framebuffer") \o <<<<"store_samples">>>>)
    \o <<<<"store_running", TRUE>>, <<"spawn">>>>

\* App::set_skybox and App::clear_skybox (app.rs:183-193)
set_skybox == guard("write", "config") \o <<<<"restart", FALSE>>>>

\* App::set_scene (app.rs:195-198)
set_scene == start_render(FALSE)

\* Variant of handle_input that reads the framebuffer under its guard.
handle_input_holding ==
    <<<<"write", "config">>>> \o guard("read", "framebuffer")
    \o <<<<"drop", "config">>>>

\* App::handle_input (app.rs:439-491): config.write() up to its end.
handle_input == guard("write", "config")

\* The rest of a frame after the buttons: the guards of the settings
\* panel (app.rs:262, 281), handle_input, and redraw's reads of the
\* framebuffer and the config (app.rs:518-520).
frame_rest ==
    guard("write", "config") \o guard("read", "config") \o handle_input
    \o guard("read", "framebuffer") \o guard("read", "config")

\* trace_gpu / trace_cpu after World::from_path, up to the loop
\* (trace.rs:146-168, 242-260).
trace_setup(cpu) ==
    guard("read", "config") \o guard("read", "framebuffer")
    \o (IF cpu THEN <<>> ELSE guard("read", "config"))
    \o <<<<"loop">>>>

\* One tick of trace_cpu (trace.rs:274-325) or trace_gpu (178-222).
trace_tick(cpu, flushes) ==
    IF cpu
      THEN <<<<"read", "config">>, <<"trace">>, <<"drop", "config">>>>
           \o guard("write", "framebuffer") \o <<<<"loop">>>>
      ELSE <<<<"dispatch", flushes>>>> \o guard("write", "framebuffer")
           \o (IF flushes THEN guard("read", "config") ELSE <<>>)
           \o <<<<"loop">>>>

ThreadTodo(th) == IF th = UiThread THEN t_ui ELSE t_threads[th].todo

Returned(th) == t_threads[th].todo = <<>>

Holds(th, l) == t_locks[l].w = th \/ th \in t_locks[l].r

\* The step at the head of th's sequence cannot be taken now.
Blocked(th) ==
    LET todo == ThreadTodo(th)
        op == Head(todo)
    IN  /\ todo # <<>>
        /\ \/ op[1] = "read" /\ t_locks[op[2]].w # NoHolder
           \/ /\ op[1] = "write"
              /\ (t_locks[op[2]].w # NoHolder \/ t_locks[op[2]].r # {})
           \/ op[1] = "join" /\ t_handle # 0 /\ ~Returned(t_handle)

\* What th has to run after the step at the head of its sequence;
\* `pick` stands for what the step finds: whether the scene loads, or
\* whether interacting or dirty is set.
Continuation(th, pick) ==
    LET todo == ThreadTodo(th)
        op == Head(todo)
        rest == Tail(todo)
    IN  IF op[1] = "stop_if_handle"
          THEN (IF t_handle # 0 THEN stop_render ELSE <<>>) \o rest
        ELSE IF op[1] = "restart"
          THEN (IF t_handle # 0 THEN start_render(op[2]) ELSE <<>>) \o rest
        ELSE IF op[1] = "load"
          THEN (IF pick THEN trace_setup(t_threads[th].cpu) ELSE <<>>)
        ELSE IF op[1] = "loop"
          THEN (IF t_running THEN trace_tick(t_threads[th].cpu, pick)
                ELSE <<>>)
        ELSE IF op[1] = "dispatch"
          THEN (IF ~op[2] /\ ~t_running THEN <<>> ELSE rest)
        ELSE rest

\* One step of thread th.
Run(th, pick) ==
    LET todo == ThreadTodo(th)
        op == Head(todo)
        next == Continuation(th, pick)
        spawned == [todo |-> <<<<"load">>>>, cpu |-> t_use_cpu]
        threads == IF op[1] = "spawn" THEN Append(t_threads, spawned)
                   ELSE t_threads
    IN  /\ todo # <<>>
        /\ ~Blocked(th)
        /\ t_locks' =
             IF op[1] = "read"
               THEN [t_locks EXCEPT ![op[2]].r = @ \cup {th}]
             ELSE IF op[1] = "write"
               THEN [t_locks EXCEPT ![op[2]].w = th]
             ELSE IF op[1] = "drop"
               THEN [t_locks EXCEPT
                       ![op[2]].w = IF @ = th THEN NoHolder ELSE @,
                       ![op[2]].r = @ \ {th}]
             ELSE t_locks
        /\ t_running' = IF op[1] = "store_running" THEN op[2] ELSE t_running
        /\ t_handle' = IF op[1] = "join" THEN 0
                       ELSE IF op[1] = "spawn" THEN Len(t_threads) + 1
                       ELSE t_handle
        /\ IF th = UiThread
             THEN t_ui' = next /\ t_threads' = threads
             ELSE /\ t_threads' = [threads EXCEPT ![th].todo = next]
                  /\ UNCHANGED t_ui
        /\ UNCHANGED <<t_use_cpu, t_frames>>

\* App::new: no thread, nothing locked.
LocksInit ==
    /\ t_locks = [l \in {"config", "framebuffer"} |-> Unlocked]
    /\ t_running = FALSE
    /\ t_handle = 0
    /\ t_threads = <<>>
    /\ t_ui = <<>>
    /\ t_use_cpu \in BOOLEAN
    /\ t_frames = 0

\* A frame of the event loop starts with what the user clicked.
Frame(clicked) ==
    /\ t_ui = <<>>
    /\ t_frames < MaxFrames
    /\ t_frames' = t_frames + 1
    /\ t_ui' = clicked \o frame_rest
    /\ UNCHANGED <<t_locks, t_running, t_handle, t_threads>>

\* "Stop" is shown while the handle's thread has not finished, else
\* "Start" (app.rs:213-221).
StopShown == t_handle # 0 /\ ~Returned(t_handle)

ClickStart == ~StopShown /\ Frame(start_render(FALSE)) /\ UNCHANGED t_use_cpu

ClickStop == StopShown /\ Frame(stop_render) /\ UNCHANGED t_use_cpu

\* "Select scene" or a dropped file that is not an image
SelectScene == Frame(set_scene) /\ UNCHANGED t_use_cpu

\* "Select skybox", "Reset skybox" or a dropped image
SelectSkybox == Frame(set_skybox) /\ UNCHANGED t_use_cpu

\* "Compute device": use_cpu = ..; restart_current_render(true)
SelectDevice(cpu) ==
    /\ t_use_cpu' = cpu
    /\ Frame(<<<<"restart", TRUE>>>>)

\* A frame without a click
NoClick == Frame(<<>>) /\ UNCHANGED t_use_cpu

UiRun == \E pick \in {TRUE} : Run(UiThread, pick)

RendererRun(th) ==
    /\ th \in DOMAIN t_threads
    /\ \E pick \in BOOLEAN : Run(th, pick)

notLocks == <<notKernel, weightVars, modesVars, farVars, rngVars, worldVars>>

LocksNext ==
    \/ ClickStart /\ UNCHANGED notLocks
    \/ ClickStop /\ UNCHANGED notLocks
    \/ SelectScene /\ UNCHANGED notLocks
    \/ SelectSkybox /\ UNCHANGED notLocks
    \/ \E cpu \in BOOLEAN : SelectDevice(cpu) /\ UNCHANGED notLocks
    \/ NoClick /\ UNCHANGED notLocks
    \/ UiRun /\ UNCHANGED notLocks
    \/ \E th \in DOMAIN t_threads : RendererRun(th) /\ UNCHANGED notLocks

LocksSpecInit ==
    /\ DriverIdle /\ DispatchIdle /\ LightIdle /\ BvhIdle /\ HarnessIdle /\ PathIdle
    /\ direct_sample = DefaultDirectSample
    /\ WeightIdle
    /\ ModesIdle
    /\ FarIdle
    /\ RngIdle
    /\ LocksInit
    /\ WorldIdle

LocksSpec == LocksSpecInit /\ [][LocksNext]_vars

\* A thread that can take a step takes it; a lock that keeps becoming
\* free is handed to a thread that waits for it.
FairLocksSpec ==
    /\ LocksSpecInit
    /\ [][LocksNext]_vars
    /\ SF_vars(UiRun /\ UNCHANGED notLocks)
    /\ \A th \in 1..MaxFrames : SF_vars(RendererRun(th) /\ UNCHANGED notLocks)

Alive == {th \in DOMAIN t_threads : ~Returned(th)}

Steps(todo) == {todo[i][1] : i \in DOMAIN todo}

\* The UI thread is in start_render, past the join.
StartRenderPastJoin ==
    /\ "spawn" \in Steps(t_ui)
    /\ Steps(t_ui) \cap {"stop_if_handle", "join"} = {}

\* C27: at most one renderer thread is alive, and none is while
\* start_render rewrites config, framebuffer and samples or spawns.
C27_OneRendererAlive ==
    /\ Cardinality(Alive) <= 1
    /\ (t_ui # <<>> /\ StartRenderPastJoin) => Alive = {}

C27_Witness ==
    /\ Len(t_threads) = 2
    /\ Returned(1)
    /\ ~Returned(2)
    /\ t_handle = 2

Threads == {UiThread} \cup DOMAIN t_threads

\* th is about to take a lock or to join.
Waiting(th) ==
    /\ th \in Threads
    /\ ThreadTodo(th) # <<>>
    /\ Head(ThreadTodo(th))[1] \in {"read", "write", "join"}

HoldsNothing(th) == \A l \in DOMAIN t_locks : ~Holds(th, l)

\* No thread asks for a lock while it holds one.
NoHoldAndWait ==
    \A th \in Threads :
        (Waiting(th) /\ Head(ThreadTodo(th))[1] # "join") => HoldsNothing(th)

\* The UI thread holds no lock while it is in stop_render's join.
NoLockInJoin ==
    (Waiting(UiThread) /\ Head(t_ui)[1] = "join") => HoldsNothing(UiThread)

\* C28: the UI thread and the renderer never deadlock: no thread asks for
\* a lock while holding one, the UI holds none in the join, and every
\* acquisition and every join completes.
C28_LocksAndJoinComplete ==
    /\ [](NoHoldAndWait /\ NoLockInJoin)
    /\ \A th \in 0..MaxFrames : Waiting(th) ~> ~Waiting(th)

\* The UI is blocked in the join while the renderer holds a lock.
C28_Witness ==
    /\ Blocked(UiThread)
    /\ Head(t_ui)[1] = "join"
    /\ \E l \in DOMAIN t_locks : Holds(t_handle, l)

\* ------------------------------- the accumulator and the uniform buffer
\* The App before the first render, after the user has set the "GPU sync
\* rate" slider and the "Compute device" box (app.rs:336-353): as DriverInit
\* but for sync_rate and use_cpu.
TunedInit ==
    /\ framebuffer = EmptyFramebuffer
    /\ running = FALSE
    /\ samples = 0
    /\ sync_rate \in 1..MaxSyncRate
    /\ use_blue_noise = TRUE
    /\ interacting = FALSE
    /\ dirty = FALSE
    /\ config = 0
    /\ config_read_locked = FALSE
    /\ compute_join_handle = "none"
    /\ use_cpu \in BOOLEAN
    /\ scene_loads \in BOOLEAN
    /\ ui_pc = "idle"
    /\ continue_previous = FALSE
    /\ rpc = "none"
    /\ on_cpu = FALSE
    /\ flush = FALSE
    /\ finished_samples = 0
    /\ batch_left = 0
    /\ output_buffer = ZeroBuffer
    /\ config_buffer = 0
    /\ rng_selected = "blue"
    /\ rng_data_advanced = [m \in {"blue", "uniform"} |-> FALSE]
    /\ rng_buffer_advanced = FALSE
    /\ tick_config = 0
    /\ tick_sync_rate = 0
    /\ finished_after_stop = 0
    /\ ui_events = 0
    /\ DispatchIdle /\ LightIdle /\ BvhIdle /\ ExtraIdle

TunedSpec == TunedInit /\ [][Next]_vars

\* trace_gpu stands at the start of a tick: the batch loop has not run.
GpuTickStart == rpc = "g_dispatch" /\ ~on_cpu /\ finished_samples = 0

\* C29: at the start of every tick of trace_gpu the accumulator holds only
\* samples traced under the config in the uniform buffer.
C29_AccumulatorUnderUniformConfig ==
    GpuTickStart => output_buffer.cfgs \subseteq {config_buffer}

\* The same for a thread that start_render spawned with
\* continue_previous = false.
FreshThreadAccumulatorUnderUniformConfig ==
    (GpuTickStart /\ ~continue_previous) =>
        output_buffer.cfgs \subseteq {config_buffer}

\* ------------------------------------ the light table of a loaded World
\* World::from_path from the BVH build on: the builder permutes the index
\* array in place, the emissive mask and the light pick table are computed
\* from the permuted array, and the same array becomes index_buffer.  A
\* triangle is kept as what the table reads of it: whether its material's
\* emissive is non-zero, and emissive . ONE times its area (0 for a triangle
\* of zero area).
Materials ==
    {[emissive |-> FALSE, power |-> 0]}
        \cup {[emissive |-> TRUE, power |-> p] : p \in 0..MaxPower}

\* compute_emissive_mask: one flag per position of the index array
compute_emissive_mask(tris) == [i \in DOMAIN tris |-> tris[i].emissive]

\* triangle_powers of build_light_pick_table: 0.0 where the mask is false
MaskedPowers(tris, m) ==
    [i \in DOMAIN tris |-> IF m[i] THEN tris[i].power ELSE 0]

\* The loop "for i in 0..num_bins" of build_light_pick_table from bin i on;
\* mp is most_probable, counted from 1, and a bin indexed below the first
\* one is a panic, kept as the empty sequence.
RECURSIVE RobinHoodLoop(_, _, _, _)
RobinHoodLoop(bs, i, mp, avg) ==
    IF i > Len(bs) THEN bs
    ELSE LET needed == avg - bs[i].probability_a
         IN  IF needed <= 0 THEN bs
             ELSE IF mp = 0 THEN <<>>
             ELSE LET given == [bs EXCEPT ![i].index_b = bs[mp].index_a,
                                          ![i].probability_b = needed]
                      taken == [given EXCEPT ![mp].probability_a = @ - needed]
                  IN  RobinHoodLoop(taken, i + 1,
                          IF taken[mp].probability_a <= avg THEN mp - 1 ELSE mp,
                          avg)

\* build_light_pick_table over the whole index array.  With n masked
\* triangles and W their total power every probability is kept as a count
\* of 1 / (n * W): triangle_probabilities[i] is n * power[i] and
\* average_probability is W.  With W = 0.0 every probability is
\* 0.0 / 0.0 = NaN, for the unmasked triangles as well: no NaN equals 0.0,
\* so every position of the array keeps its bin, the sort leaves the order,
\* needed is NaN, the loop never breaks, gives every bin the last bin's
\* triangle as index_b and never moves most_probable; the ratio is NaN.
build_light_pick_table(tris, m) ==
    LET n == Cardinality({i \in DOMAIN m : m[i]})
        powers == MaskedPowers(tris, m)
        W == SumSeq(powers)
        unsorted == SelectSeq([i \in DOMAIN tris |->
                        [index_a |-> i - 1, probability_a |-> n * powers[i],
                         index_b |-> 0, probability_b |-> 0]], NonZeroBin)
        robbed == RobinHoodLoop(SortBins(unsorted), 1, Len(unsorted), W)
    IN  IF n = 0
          THEN <<[triangle_index_a |-> 0, triangle_index_b |-> 0,
                  ratio |-> <<-1, 1>>]>>
        ELSE IF W = 0
          THEN [i \in DOMAIN tris |->
                  [triangle_index_a |-> i - 1,
                   triangle_index_b |-> Len(tris) - 1,
                   ratio |-> <<0, 0>>]]
        ELSE IF robbed = <<>> THEN <<>>
        ELSE [i \in DOMAIN robbed |->
                  [triangle_index_a |-> robbed[i].index_a,
                   triangle_index_b |-> robbed[i].index_b,
                   ratio |-> EntryRatio(robbed[i])]]

\* pick_light: outcome a iff rng.y < entry.ratio, with rng.y in [0, 1); a
\* ratio <<num, 0>> is NaN, which no rng.y is below.
CanReturnA(entry) ==
    /\ entry.ratio[2] # 0
    /\ entry.ratio[1] * entry.ratio[2] > 0

CanReturnB(entry) ==
    \/ entry.ratio[2] = 0
    \/ entry.ratio[2] > 0 /\ entry.ratio[1] < entry.ratio[2]
    \/ entry.ratio[2] < 0 /\ entry.ratio[1] > entry.ratio[2]

WorldInit ==
    /\ w_pc = "loaded"
    /\ w_indices \in SeqsUpTo(Materials, WorldTris) \ {<<>>}
    /\ w_mask = <<>>
    /\ w_table = <<>>
    /\ w_light = 0

\* BVHBuilder::new(&vertices, &mut indices).build(): the partition swaps
\* entries of the index array, in an order the geometry decides.
WorldBuildBvh ==
    /\ w_pc = "loaded"
    /\ \E p \in Permutations(DOMAIN w_indices) :
          w_indices' = [i \in DOMAIN w_indices |-> w_indices[p[i]]]
    /\ w_pc' = "bvh"
    /\ UNCHANGED <<w_mask, w_table, w_light>>

WorldEmissiveMask ==
    /\ w_pc = "bvh"
    /\ w_mask' = compute_emissive_mask(w_indices)
    /\ w_pc' = "mask"
    /\ UNCHANGED <<w_indices, w_table, w_light>>

\* The table is built; World { index_buffer: indices, light_pick_buffer }.
WorldLightPickTable ==
    /\ w_pc = "mask"
    /\ LET table == build_light_pick_table(w_indices, w_mask)
       IN  IF table = <<>>
             THEN w_pc' = "panic" /\ UNCHANGED w_table
             ELSE w_pc' = "world" /\ w_table' = table
    /\ UNCHANGED <<w_indices, w_mask, w_light>>

\* sample_direct_lighting past the sentinel test: pick_light returns the
\* triangle index of an outcome of some entry.
WorldPickLight ==
    /\ w_pc = "world"
    /\ ~is_sentinel(w_table[1])
    /\ \E e \in DOMAIN w_table :
          \/ CanReturnA(w_table[e]) /\ w_light' = w_table[e].triangle_index_a
          \/ CanReturnB(w_table[e]) /\ w_light' = w_table[e].triangle_index_b
    /\ w_pc' = "picked"
    /\ UNCHANGED <<w_indices, w_mask, w_table>>

notWorld == <<notKernel, weightVars, modesVars, farVars, rngVars, lockVars>>

WorldNext ==
    \/ WorldBuildBvh /\ UNCHANGED notWorld
    \/ WorldEmissiveMask /\ UNCHANGED notWorld
    \/ WorldLightPickTable /\ UNCHANGED notWorld
    \/ WorldPickLight /\ UNCHANGED notWorld

WorldSpecInit ==
    /\ DriverIdle /\ DispatchIdle /\ LightIdle /\ BvhIdle /\ HarnessIdle /\ PathIdle
    /\ direct_sample = DefaultDirectSample
    /\ WeightIdle
    /\ ModesIdle
    /\ FarIdle
    /\ RngIdle
    /\ LocksIdle
    /\ WorldInit

WorldSpec == WorldSpecInit /\ [][WorldNext]_vars

\* The triangle at index t of index_buffer, the array the kernel traverses
\* and intersect_front_to_back numbers its hits by, is emissive.
EmissiveAt(t) ==
    /\ t + 1 \in DOMAIN w_indices
    /\ w_indices[t + 1].emissive

\* C30: every triangle index that pick_light can return from a table that
\* is not the sentinel designates an emissive triangle at that position of
\* the index buffer.
C30_PickedIsEmissive == w_pc = "picked" => EmissiveAt(w_light)

\* The same for the scenes whose emissive triangles have a total power
\* above zero.
PickedIsEmissiveUnderPositivePower ==
    (w_pc = "picked" /\ SumSeq(MaskedPowers(w_indices, w_mask)) > 0)
        => EmissiveAt(w_light)

\* ... and there the picked triangle has a power above zero.
PickedHasPower ==
    (w_pc = "picked" /\ SumSeq(MaskedPowers(w_indices, w_mask)) > 0)
        => w_indices[w_light + 1].power > 0

====
